---- MODULE Spec2Model ----
(***************************************************************************)
(* Model of the index-artifact cache of load.py: Index_managment_prep,     *)
(* d2vwitch / ffmsindex, update_index_path_reference, json_load/json_dump, *)
(* run_process and correct_byte_for_range.                                 *)
(*                                                                         *)
(* Conventions.                                                            *)
(*  - A source path is a record [dir, stem, ext]; os.path.basename is      *)
(*    <<stem, ext>>, os.path.splitext(...)[0] is stem.                     *)
(*  - A file name inside an index directory is a record [head, rnd, ext]:  *)
(*    the string head + tmp<rnd> + ("." + ext).  rnd = 0 means "no random  *)
(*    part".  random_name() returns strings "tmp????????"; the model takes *)
(*    successive draws to be pairwise distinct (names is the number of     *)
(*    draws so far), which is the uniqueness the code relies on.           *)
(*  - Text files are sequences of one-character strings, their lines ended *)
(*    by "\n" (no "\r": the newline translation of text mode does nothing). *)
(*  - Python values that are not booleans are tagged strings ("True",      *)
(*    "False", "int1", "int0", "int2", "None").                            *)
(*  - pc = "done" is the instant at which index() returns or raises; the   *)
(*    caller then takes the result (Finish) and the slot is free again.    *)
(***************************************************************************)
EXTENDS Integers, Sequences, FiniteSets, TLC

(* ------------------------------ bounds --------------------------------- *)
\* number of random_name() draws a behaviour may make
MaxNames == 5
\* number of json_dump calls that may fail in a behaviour
MaxFaults == 1
\* number of lines of the texts correct_byte_for_range is tried on
MaxLines == 3
\* length of the sources list given to Sources.get_data
MaxSources == 3
\* number of Sources instances constructed in a behaviour
MaxInstances == 2
MaxLabels == 3

(* --------------------------- program constants ------------------------- *)
\* f.seek(offset+13): position of the flag byte inside the marker line
FlagOffset == 13

Procs == {1}
Kinds == {"d2v", "ffindex"}

\* exec_name of d2vwitch() / ffmsindex()
exec_name(index_ext) == IF index_ext = "d2v" THEN "d2vwitch" ELSE "ffmsindex"

(* ------------------------- the static file system ---------------------- *)
\* directories and files that no operation of the program writes:
\* sources, tool directories, the cache root.
SrcA == [dir |-> "x/d", stem |-> "a", ext |-> "mpg"]
SrcB == [dir |-> "x/d", stem |-> "b", ext |-> "mpg"]
NoSource == [dir |-> "", stem |-> "", ext |-> ""]
SrcMissing == [dir |-> "x/d", stem |-> "zz", ext |-> "mpg"]
SrcIsDir == [dir |-> "x", stem |-> "d", ext |-> ""]
Sources == {SrcA, SrcB}
\* a file with the basename of SrcA in another directory named d, and a
\* file beside SrcA with its stem and another extension
SrcTwin == [dir |-> "y/d", stem |-> "a", ext |-> "mpg"]
SrcAts == [dir |-> "x/d", stem |-> "a", ext |-> "ts"]
Files == Sources \cup {SrcTwin, SrcAts}
SourceArgs == Sources \cup {NoSource, SrcMissing, SrcIsDir}

\* os.path.basename(os.path.dirname(source))
dir_basename(d) == IF d \in {"x/d", "y/d"} THEN "d" ELSE IF d = "x" THEN "x" ELSE ""
\* os.path.basename(source)
basename(source) == <<source.stem, source.ext>>

ToolDirs == {"", "bin", "binexe", "emptydir", "nodir"}
CacheDirs == {"", "cache", "nocache"}
\* what shutil.which finds: nothing, a regular file, or an executable entry
\* that is no regular file
OnPath == {"none", "file", "special"}

NoTool == [dir |-> "", name |-> "", suffix |-> ""]
\* os.path.isdir on the directories of the static file system
isdir(d) == d \in {"bin", "binexe", "emptydir", "cache", "x/d", "y/d", "x", "pathdir", "appdir"}
\* os.path.isfile on a tool path; "bin" holds the bare binaries, "binexe"
\* the binaries with the platform suffix, "pathdir" is the PATH entry
isfile_tool(path, onPath) ==
    \/ path.dir = "bin" /\ path.suffix = "" /\ path.name # ""
    \/ path.dir = "binexe" /\ path.suffix = ".exe" /\ path.name # ""
    \/ path.dir = "pathdir" /\ path.suffix = "" /\ path.name # "" /\ onPath = "file"
\* shutil.which(exec_name)
which(name, onPath) ==
    IF onPath = "none" THEN NoTool
    ELSE [dir |-> "pathdir", name |-> name, suffix |-> ""]
\* os.path.isfile(source)
isfile_source_unchecked(source) == TRUE
isfile_source(source) == source \in Files

(* ------------------------------ get_exec_path -------------------------- *)
\* a raised exception; executable is the attribute of ExecutableNotInPATHError
Raised(err, executable) ==
    [ok |-> FALSE, err |-> err, path |-> NoTool, executable |-> executable]
Resolved(path) == [ok |-> TRUE, err |-> "", path |-> path, executable |-> ""]

\* get_exec_path with line 910 testing only that fallback_tool_dir is non-empty
get_exec_path_fallbackUnchecked(exec_dir, name, fallback_tool_dir, onPath) ==
    LET w == which(name, onPath)
        found == exec_dir = "" /\ w # NoTool /\ isfile_tool(w, onPath)
        dir1 == IF exec_dir = "" /\ ~found THEN fallback_tool_dir ELSE exec_dir
        path0 == IF exec_dir = "" THEN w ELSE NoTool
        path1 == IF path0 = NoTool
                 THEN [dir |-> dir1, name |-> name, suffix |-> ""] ELSE path0
        path2 == [path1 EXCEPT !.suffix = ".exe"]
    IN  IF exec_dir = "" /\ ~found /\ fallback_tool_dir = ""
        THEN Raised("ExecutableNotInPATHError", name)
        ELSE IF ~isdir(dir1)
        THEN Raised("ValueError_exec_dir", "")
        ELSE IF ~isfile_tool(path1, onPath) /\ ~isfile_tool(path2, onPath)
        THEN Raised("ValueError_exec_missing", "")
        ELSE Resolved(IF isfile_tool(path1, onPath) THEN path1 ELSE path2)

\* get_exec_path that reports a binary missing from the directory as the
\* tool not being found
get_exec_path_missingAsNotFound(exec_dir, name, fallback_tool_dir, onPath) ==
    LET w == which(name, onPath)
        found == exec_dir = "" /\ w # NoTool /\ isfile_tool(w, onPath)
        dir1 == IF exec_dir = "" /\ ~found THEN fallback_tool_dir ELSE exec_dir
        path0 == IF exec_dir = "" THEN w ELSE NoTool
        path1 == IF path0 = NoTool
                 THEN [dir |-> dir1, name |-> name, suffix |-> ""] ELSE path0
        path2 == [path1 EXCEPT !.suffix = ".exe"]
    IN  IF exec_dir = "" /\ ~found /\ ~(fallback_tool_dir # "" /\ isdir(fallback_tool_dir))
        THEN Raised("ExecutableNotInPATHError", name)
        ELSE IF ~isdir(dir1)
        THEN Raised("ValueError_exec_dir", "")
        ELSE IF ~isfile_tool(path1, onPath) /\ ~isfile_tool(path2, onPath)
        THEN Raised("ExecutableNotInPATHError", name)
        ELSE Resolved(IF isfile_tool(path1, onPath) THEN path1 ELSE path2)

\* Index_managment_prep.get_exec_path.  Result: [ok, err, path].
get_exec_path(exec_dir, name, fallback_tool_dir, onPath) ==
    LET w == which(name, onPath)
        \* line 905: exec_path and os.path.isfile(exec_path)
        found == exec_dir = "" /\ w # NoTool /\ isfile_tool(w, onPath)
        \* line 912: exec_dir = fallback_tool_dir
        dir1 == IF exec_dir = "" /\ ~found THEN fallback_tool_dir ELSE exec_dir
        \* exec_path after the first block: what which returned, else ''
        path0 == IF exec_dir = "" THEN w ELSE NoTool
        \* line 919-920
        path1 == IF path0 = NoTool
                 THEN [dir |-> dir1, name |-> name, suffix |-> ""] ELSE path0
        \* line 922
        path2 == [path1 EXCEPT !.suffix = ".exe"]
    IN  IF exec_dir = "" /\ ~found /\ ~(fallback_tool_dir # "" /\ isdir(fallback_tool_dir))
        THEN Raised("ExecutableNotInPATHError", name)
        \* line 917: os.path.isdir(exec_dir), also reached with exec_dir = ''
        \* when the tool was found on the search path
        ELSE IF ~isdir(dir1)
        THEN Raised("ValueError_exec_dir", "")
        ELSE IF ~isfile_tool(path1, onPath) /\ ~isfile_tool(path2, onPath)
        THEN Raised("ValueError_exec_missing", "")
        ELSE Resolved(IF isfile_tool(path1, onPath) THEN path1 ELSE path2)

(* ------------------------------- text files ---------------------------- *)
\* 'YUVRGB_Scale'
MARKER == <<"Y", "U", "V", "R", "G", "B", "_", "S", "c", "a", "l", "e">>
Whitespace == {" ", "\n", "\t"}

\* the index (1-based) of the last character of the line that starts at i:
\* the first "\n" at or after i, else the end of the text
RECURSIVE LineEnd(_, _)
LineEnd(text, i) ==
    IF i >= Len(text) \/ text[i] = "\n" THEN i ELSE LineEnd(text, i + 1)

\* str.strip(): leading and trailing whitespace removed
RECURSIVE lstrip(_)
lstrip(s) == IF s # <<>> /\ Head(s) \in Whitespace THEN lstrip(Tail(s)) ELSE s
RECURSIVE rstrip(_)
rstrip(s) ==
    IF s # <<>> /\ s[Len(s)] \in Whitespace THEN rstrip(SubSeq(s, 1, Len(s) - 1)) ELSE s
strip(s) == rstrip(lstrip(s))
startswith(s, prefix) == Len(s) >= Len(prefix) /\ SubSeq(s, 1, Len(prefix)) = prefix

\* lines 635-640: the for loop over the lines of the file; the value of
\* offset when the loop ends (at the break, or after the last line)
RECURSIVE ScanOffset(_, _)
ScanOffset(text, offset) ==
    IF offset >= Len(text) THEN offset
    ELSE LET e == LineEnd(text, offset + 1)
             line == SubSeq(text, offset + 1, e)
         IN  IF startswith(strip(line), MARKER) THEN offset
             ELSE ScanOffset(text, offset + Len(line))

\* f.seek(pos); f.read(1): the character at 0-based position pos, '' at or
\* after the end of the file
read1(text, pos) == IF pos < Len(text) THEN <<text[pos + 1]>> ELSE <<>>

\* f.seek(pos); f.write(s): s written over the bytes from 0-based position
\* pos on, the file growing when s reaches past its end
write_at(text, pos, s) ==
    LET n == IF pos + Len(s) > Len(text) THEN pos + Len(s) ELSE Len(text)
    IN  [i \in 1..n |->
            IF i > pos /\ i <= pos + Len(s) THEN s[i - pos]
            ELSE IF i <= Len(text) THEN text[i] ELSE " "]

\* lines 631-632
input_range_number(input_range) == IF input_range = "full" THEN "0" ELSE "1"

\* correct_byte_for_range on the content of an opened file.
\* Result: [text, log] (log: the messages of lines 649 and 651).
correct_byte_for_range(text, input_range) ==
    LET num == input_range_number(input_range)
        offset == ScanOffset(text, 0)
    IN  IF offset # 0 /\ read1(text, offset + FlagOffset) # <<num>>
        THEN [text |-> write_at(text, offset, MARKER \o <<"=", num>>),
              log |-> {"info_correcting_range"}]
        ELSE [text |-> text, log |-> {}]

\* lines 573-578 of d2vwitch: the range named by the option string, given
\* as the list d2vwitch_options.split(' ')
RECURSIVE parse_input_range(_, _)
parse_input_range(args, input_range) ==
    IF args = <<>> THEN input_range
    ELSE IF Head(args) = "--input-range" /\ Tail(args) # <<>>
    THEN parse_input_range(Tail(Tail(args)), Head(Tail(args)))
    ELSE parse_input_range(Tail(args), input_range)

(* -------------------------------- state -------------------------------- *)
VARIABLES
    fs,       \* the files the program writes: path -> content
    nsdirs,   \* the directories <cache>/indexing/<parent> that exist
    names,    \* number of random_name() draws so far
    pc,       \* per call slot: where the index() call of that slot stands
    call,     \* per call slot: the arguments of the call that went past validation
    prep,     \* per call slot: the fields of its Index_managment_prep
    result,   \* per call slot: how the last call ended
    log,      \* per call slot: the messages logged by the current / last call
    last,     \* history: per kind and basename, the path the last namespaced call
              \* returned if that call had re_use_indexing=True and succeeded
    gen,      \* history: per kind and basename, the artifact of the last persisted update
    faulted,  \* history: per kind, whether a json_dump of a manifest has failed
    nfaults,  \* history: number of json_dump calls that have failed
    probe,    \* the last get_exec_path evaluation of specification SpecExec
    patched,  \* the last correct_byte_for_range evaluation of specification SpecPatch
    loader,   \* Sources.get_data: its position, its list, and the two log buffers
    recent,   \* history: per kind and basename, the last path a namespaced call
              \* returned that was not the empty string, and the flag of that call
    heap,     \* the dict objects of the module and of the Sources instances
    ui        \* the Settings_UI instance and what its user is doing

vars == <<fs, nsdirs, names, pc, call, prep, result, log, last, gen, faulted, nfaults, probe, patched, loader, recent, heap, ui>>

NoDir == [root |-> "", sub |-> "", leaf |-> ""]
NoName == [head |-> "", rnd |-> 0, ext |-> ""]
NoPath == [dir |-> NoDir, name |-> NoName]
\* os.path.dirname(source), as a directory of fs
source_dir(source) == [root |-> source.dir, sub |-> "", leaf |-> ""]
\* one directory 'indexing' for the sources of all directories
indexing_subdir_flat(indexing_dir, source) ==
    [root |-> indexing_dir, sub |-> "indexing", leaf |-> ""]
\* os.path.join(indexing_dir, 'indexing', basename), line 815
indexing_subdir(indexing_dir, source) ==
    [root |-> indexing_dir, sub |-> "indexing", leaf |-> dir_basename(source.dir)]
\* os.path.join(dir, name)
join(dir, name) == [dir |-> dir, name |-> name]

\* index_ext + 'list'
list_prefix(index_ext) == IF index_ext = "d2v" THEN "d2vlist" ELSE "ffindexlist"
\* f.startswith(index_ext + 'list') for the names of the model: a name with a
\* head starts with the prefix iff its head is the prefix (no head of the
\* model is a proper extension of a prefix); a name without head starts
\* with "tmp"
\* a test for 'list' anywhere in the name instead of the prefix
name_startswith_anyList(name, prefix) == name.head \in {"d2vlist", "ffindexlist"}
name_startswith(name, prefix) == name.head = prefix

\* the placeholder mapping {'filebase': 'index file'} of line 877
PlaceholderKey == <<"filebase", "">>
PlaceholderPath == [dir |-> NoDir, name |-> [head |-> "index file", rnd |-> 0, ext |-> ""]]
EmptyMap == <<>>
\* a reference list created without an entry
Placeholder_none == EmptyMap
Placeholder == PlaceholderKey :> PlaceholderPath
\* what json.load returns for a document that is valid JSON and no object
\* (a non-empty list, say): a value that is no dict of the model
NotADict == <<"", "list">> :> NoPath
\* isinstance(file_index_ref, dict)
isinstance_dict(ref) == ref # NotADict

\* truth value of an accepted re_use_indexing (True, False, 1, 0)
truthy(v) == v \in {"True", "int1"}
ReuseArgs == {"True", "False", "None"}
\* the values of re_use_indexing tried where the index directory is not used
ReuseArgsAll == {"True", "False", "int1", "int0", "int2", "None", "str"}

\* d2vwitch_options.split(' ')
OptDefault == <<"--input-range", "\"limited\"", "", "--single-input">>
OptFull == <<"--input-range", "full">>
Options == {OptDefault, OptFull}
\* '--input-range "full"', '--input-range limited', '--single-input'
OptFullQuoted == <<"--input-range", "\"full\"">>
OptLimited == <<"--input-range", "limited">>
OptNoRange == <<"--single-input">>
OptionsAll == Options \cup {OptFullQuoted, OptLimited, OptNoRange}

\* what the external tools write
Line(flag) == MARKER \o <<"=", flag, "\n">>
D2VLimited == <<"D", "\n">> \o Line("1") \o <<"d", "\n">>
D2VFull == <<"D", "\n">> \o Line("0") \o <<"d", "\n">>
ToolOutputs(index_ext) ==
    IF index_ext = "d2v" THEN {D2VLimited} ELSE {<<"F">>}

\* os.path.exists / os.path.isfile on a path of fs
exists(f, path) == path \in DOMAIN f
remove(f, path) == [q \in DOMAIN f \ {path} |-> f[q]]
put(f, path, content) == (path :> content) @@ f

(* ------------------------------ json, names ---------------------------- *)
\* json_load: what json.load makes of the file (a mapping, or NotADict), {}
\* with the error logged when the file cannot be opened or parsed.
\* Result: [map, log].
json_load(f, storage, filename) ==
    LET path == join(storage, filename)
    IN  IF exists(f, path) /\ f[path].t = "json"
        THEN [map |-> f[path].map, log |-> {}]
        ELSE IF exists(f, path) /\ f[path].t = "nondict"
        THEN [map |-> NotADict, log |-> {}]
        ELSE [map |-> EmptyMap, log |-> {"err_json_load"}]

\* how json_dump can end: written; open() failed (no file); open() created
\* the file and writing it failed (a file that is no JSON document)
DumpOutcomes == {"ok", "nofile", "partial"}

\* json_dump that answers True although writing the file failed
json_dump_failureUnreported(f, storage, filename, template, outcome) ==
    LET path == join(storage, filename)
    IN  [fs |-> IF outcome = "ok" THEN put(f, path, [t |-> "json", map |-> template])
                ELSE IF outcome = "partial" THEN put(f, path, [t |-> "partial"]) ELSE f,
         isDumped |-> TRUE, log |-> {}]

\* json_dump.  Result: [fs, isDumped, log].
json_dump(f, storage, filename, template, outcome) ==
    LET path == join(storage, filename)
    IN  IF outcome = "ok"
        THEN [fs |-> put(f, path, [t |-> "json", map |-> template]),
              isDumped |-> TRUE, log |-> {}]
        ELSE [fs |-> IF outcome = "partial" THEN put(f, path, [t |-> "partial"]) ELSE f,
              isDumped |-> FALSE, log |-> {"err_json_dump"}]

\* random_name(): the (n+1)-th draw
random_name(n) == n + 1

(* ------------------------- Index_managment_prep ------------------------ *)
\* lines 840-842: the reference list is loaded only when re_use_indexing
reference_for_alwaysLoaded(re_use_indexing, loaded) == loaded
reference_for_neverLoaded(re_use_indexing, loaded) == EmptyMap
reference_for(re_use_indexing, loaded) ==
    IF truthy(re_use_indexing) THEN loaded ELSE EmptyMap

\* lines 843-850: the dict is non-empty, holds the key, and the file it
\* names exists
is_hit_unchecked(f, ref, key) == ref # EmptyMap /\ key \in DOMAIN ref
is_hit(f, ref, key) == ref # EmptyMap /\ key \in DOMAIN ref /\ exists(f, ref[key])

\* The operators below return the SET of their possible outcomes: the order
\* of os.listdir and the fate of a json_dump are not decided by the program.

\* get_reflist_name that writes a new list file although it has found one
get_reflist_name_listAnew(f, n, indexing_dir, index_ext) ==
    LET found == {q \in DOMAIN f : q.dir = indexing_dir
                                   /\ name_startswith(q.name, list_prefix(index_ext))}
        new == [head |-> list_prefix(index_ext), rnd |-> random_name(n), ext |-> ""]
    IN  IF found # {}
        THEN {[reflist_name |-> q.name,
               fs |-> json_dump(f, indexing_dir, new, Placeholder, "ok").fs,
               names |-> n + 1, log |-> {}, dumpFailed |-> FALSE] : q \in found}
        ELSE {LET d == json_dump(f, indexing_dir, new, Placeholder, o)
              IN  [reflist_name |-> IF d.isDumped THEN new ELSE NoName,
                   fs |-> d.fs, names |-> n + 1,
                   log |-> IF d.isDumped THEN {} ELSE d.log \cup {"err_create_reflist"},
                   dumpFailed |-> ~d.isDumped] : o \in DumpOutcomes}

\* get_reflist_name.  Outcomes: [reflist_name, fs, names, log, dumpFailed].
get_reflist_name(f, n, indexing_dir, index_ext) ==
    LET found == {q \in DOMAIN f : q.dir = indexing_dir
                                   /\ name_startswith(q.name, list_prefix(index_ext))}
        new == [head |-> list_prefix(index_ext), rnd |-> random_name(n), ext |-> ""]
    IN  IF found # {}
        THEN {[reflist_name |-> q.name, fs |-> f, names |-> n, log |-> {},
               dumpFailed |-> FALSE] : q \in found}
        ELSE {LET d == json_dump(f, indexing_dir, new, Placeholder, o)
              IN  [reflist_name |-> IF d.isDumped THEN new ELSE NoName,
                   fs |-> d.fs, names |-> n + 1,
                   log |-> IF d.isDumped THEN {} ELSE d.log \cup {"err_create_reflist"},
                   dumpFailed |-> ~d.isDumped] : o \in DumpOutcomes}

\* get_index_path_using_reflist.  Outcomes: [isIndexing, index_path,
\* reflist_name, file_index_ref, fs, names, log, dumpFailed].
get_index_path_using_reflist(f, n, source, index_ext, indexing_dir, re_use_indexing) ==
    {LET key == basename(source)
         ld == json_load(r.fs, indexing_dir, r.reflist_name)
         ref == reference_for(re_use_indexing, ld.map)
         \* line 843: file_index_ref and isinstance(file_index_ref, dict)
         has == ref # EmptyMap /\ isinstance_dict(ref) /\ key \in DOMAIN ref
         hit == isinstance_dict(ref) /\ is_hit(r.fs, ref, key)
         \* line 855: del file_index_ref[key]
         ref2 == IF has /\ ~hit THEN [k \in DOMAIN ref \ {key} |-> ref[k]] ELSE ref
         fresh == join(indexing_dir,
                       [head |-> "", rnd |-> random_name(r.names), ext |-> index_ext])
     IN  [isIndexing |-> ~hit,
          index_path |-> IF hit THEN ref[key] ELSE fresh,
          reflist_name |-> r.reflist_name,
          file_index_ref |-> ref2,
          fs |-> r.fs,
          names |-> IF hit THEN r.names ELSE r.names + 1,
          log |-> r.log \cup (IF truthy(re_use_indexing) THEN ld.log ELSE {}),
          dumpFailed |-> r.dumpFailed]
     : r \in get_reflist_name(f, n, indexing_dir, index_ext)}

\* get_index_path that keeps the extension of the source in the name
get_index_path_fullname(f, file, index_ext, indexing_dir, re_use_indexing) ==
    LET name == file.stem \o "." \o file.ext
        index_path == join(indexing_dir, [head |-> name, rnd |-> 0, ext |-> index_ext])
    IN  [isIndexing |-> ~(truthy(re_use_indexing) /\ exists(f, index_path)),
         index_path |-> index_path]

\* get_index_path that looks for the file whatever re_use_indexing is
get_index_path_alwaysReuse(f, file, index_ext, indexing_dir, re_use_indexing) ==
    LET name == file.stem
        index_path == join(indexing_dir, [head |-> name, rnd |-> 0, ext |-> index_ext])
    IN  [isIndexing |-> ~exists(f, index_path), index_path |-> index_path]

\* get_index_path.  Result: [isIndexing, index_path].
get_index_path(f, file, index_ext, indexing_dir, re_use_indexing) ==
    LET name == file.stem
        index_path == join(indexing_dir, [head |-> name, rnd |-> 0, ext |-> index_ext])
    IN  [isIndexing |-> ~(truthy(re_use_indexing) /\ exists(f, index_path)),
         index_path |-> index_path]

PrepRaised(f, dirs, n, err) ==
    [err |-> err, fs |-> f, nsdirs |-> dirs, names |-> n, isIndexing |-> FALSE,
     index_path |-> NoPath, reflist_name |-> NoName, file_index_ref |-> EmptyMap,
     using_reflist |-> FALSE, indexing_dir |-> NoDir, exec_path |-> NoTool,
     log |-> {}, dumpFailed |-> FALSE]

\* __init__ that resolves the executable after the index directory and the
\* reference list have been made
Index_managment_prep_lateToolCheck(f, dirs, n, index_ext, source, re_use_indexing, exec_dir, indexing_dir, fallback_tool_dir, onPath) ==
    LET ex == get_exec_path(exec_dir, exec_name(index_ext), fallback_tool_dir, onPath)
        nsdir == indexing_subdir(indexing_dir, source)
        sdir == source_dir(source)
        co == get_index_path(f, source, index_ext, sdir, re_use_indexing)
    IN  IF source = NoSource THEN {PrepRaised(f, dirs, n, "ValueError_no_source")}
        ELSE IF ~isfile_source(source) THEN {PrepRaised(f, dirs, n, "ValueError_not_a_file")}
        ELSE IF re_use_indexing \notin {"True", "False", "int1", "int0"}
        THEN {PrepRaised(f, dirs, n, "ValueError_re_use_indexing")}
        ELSE IF indexing_dir # ""
        THEN IF ~isdir(indexing_dir)
             THEN {PrepRaised(f, dirs, n, "ValueError_indexing_dir")}
             ELSE {IF ~ex.ok
                   THEN [PrepRaised(g.fs, dirs \cup {nsdir}, g.names, ex.err)
                            EXCEPT !.dumpFailed = g.dumpFailed]
                   ELSE [err |-> "", fs |-> g.fs, nsdirs |-> dirs \cup {nsdir},
                         names |-> g.names, isIndexing |-> g.isIndexing,
                         index_path |-> g.index_path, reflist_name |-> g.reflist_name,
                         file_index_ref |-> g.file_index_ref, using_reflist |-> TRUE,
                         indexing_dir |-> nsdir, exec_path |-> ex.path, log |-> g.log,
                         dumpFailed |-> g.dumpFailed]
                   : g \in get_index_path_using_reflist(f, n, source, index_ext,
                                                        nsdir, re_use_indexing)}
        ELSE IF ~ex.ok THEN {PrepRaised(f, dirs, n, ex.err)}
        ELSE {[err |-> "", fs |-> f, nsdirs |-> dirs, names |-> n,
               isIndexing |-> co.isIndexing, index_path |-> co.index_path,
               reflist_name |-> NoName, file_index_ref |-> EmptyMap,
               using_reflist |-> FALSE, indexing_dir |-> sdir, exec_path |-> ex.path,
               log |-> {}, dumpFailed |-> FALSE]}

\* Index_managment_prep.__init__.  Outcomes: the fields of the instance, the
\* file system it leaves, and err: the exception raised ("" when none).
Index_managment_prep(f, dirs, n, index_ext, source, re_use_indexing, exec_dir, indexing_dir, fallback_tool_dir, onPath) ==
    LET ex == get_exec_path(exec_dir, exec_name(index_ext), fallback_tool_dir, onPath)
        nsdir == indexing_subdir(indexing_dir, source)
        sdir == source_dir(source)
        co == get_index_path(f, source, index_ext, sdir, re_use_indexing)
    IN  IF source = NoSource THEN {PrepRaised(f, dirs, n, "ValueError_no_source")}
        ELSE IF ~isfile_source(source) THEN {PrepRaised(f, dirs, n, "ValueError_not_a_file")}
        ELSE IF re_use_indexing \notin {"True", "False", "int1", "int0"}
        THEN {PrepRaised(f, dirs, n, "ValueError_re_use_indexing")}
        ELSE IF ~ex.ok THEN {PrepRaised(f, dirs, n, ex.err)}
        ELSE IF indexing_dir # ""
        THEN IF ~isdir(indexing_dir)
             THEN {PrepRaised(f, dirs, n, "ValueError_indexing_dir")}
             ELSE {[err |-> "", fs |-> g.fs, nsdirs |-> dirs \cup {nsdir},
                    names |-> g.names, isIndexing |-> g.isIndexing,
                    index_path |-> g.index_path, reflist_name |-> g.reflist_name,
                    file_index_ref |-> g.file_index_ref, using_reflist |-> TRUE,
                    indexing_dir |-> nsdir, exec_path |-> ex.path, log |-> g.log,
                    dumpFailed |-> g.dumpFailed]
                   : g \in get_index_path_using_reflist(f, n, source, index_ext,
                                                        nsdir, re_use_indexing)}
        ELSE {[err |-> "", fs |-> f, nsdirs |-> dirs, names |-> n,
               isIndexing |-> co.isIndexing, index_path |-> co.index_path,
               reflist_name |-> NoName, file_index_ref |-> EmptyMap,
               using_reflist |-> FALSE, indexing_dir |-> sdir, exec_path |-> ex.path,
               log |-> {}, dumpFailed |-> FALSE]}

(* ------------------------------- history ------------------------------- *)
Keys == {basename(src) : src \in Sources}
NoRecent == [path |-> NoPath, reuse |-> ""]
NoCall == [kind |-> "", source |-> NoSource, reuse |-> "", indexing_dir |-> "",
           opts |-> <<>>,
           pre |-> [last |-> NoPath, lastLive |-> FALSE,
                    rec |-> {}, recLive |-> FALSE, faulted |-> FALSE, there |-> FALSE,
                    lists |-> <<>>, recent |-> NoRecent, recentLive |-> FALSE]]
NoPrep == [isIndexing |-> FALSE, index_path |-> NoPath, reflist_name |-> NoName,
           file_index_ref |-> EmptyMap, using_reflist |-> FALSE, indexing_dir |-> NoDir,
           ran |-> FALSE, proc |-> "", exit0 |-> FALSE, wrote |-> FALSE,
           fileThere |-> FALSE, dumped |-> "",
           corrected |-> FALSE,
           oldMap |-> EmptyMap, new_name |-> NoName]
NoResult == [st |-> "none", path |-> NoPath, err |-> ""]

\* the manifest files of a kind in a directory, and the complete ones
Manifests(f, dir, index_ext) ==
    {q \in DOMAIN f : q.dir = dir /\ name_startswith(q.name, list_prefix(index_ext))}
CompleteManifests(f, dir, index_ext) ==
    {q \in Manifests(f, dir, index_ext) : f[q].t = "json"}
\* the artifact paths some manifest of the kind records for a basename
Recorded(f, dir, index_ext, key) ==
    {f[q].map[key] : q \in {m \in CompleteManifests(f, dir, index_ext) : key \in DOMAIN f[m].map}}

Snapshot(index_ext, source, indexing_dir) ==
    LET key == basename(source)
        dir == indexing_subdir(indexing_dir, source)
        rec == Recorded(fs, dir, index_ext, key)
    IN  IF indexing_dir = ""
        THEN [NoCall.pre EXCEPT !.there =
                 exists(fs, join(source_dir(source),
                                 [head |-> source.stem, rnd |-> 0, ext |-> index_ext]))]
        ELSE [last |-> last[index_ext][key],
              lastLive |-> exists(fs, last[index_ext][key]),
              rec |-> rec,
              recLive |-> \E q \in rec : exists(fs, q),
              faulted |-> faulted[index_ext],
              there |-> FALSE,
              lists |-> [q \in UNION {Manifests(fs, dir, k) : k \in Kinds} |-> fs[q]],
              recent |-> recent[index_ext][key],
              recentLive |-> exists(fs, recent[index_ext][key].path)]

(* -------------------------------- actions ------------------------------- *)
\* lines 571-580 of d2vwitch: correct_byte_for_range is called on the index
\* of a call that does not run the tool; ffmsindex has no such call
needs_correction_never(index_ext, isIndexing) == FALSE
needs_correction(index_ext, isIndexing) == index_ext = "d2v" /\ ~isIndexing

\* index() returns path: the call of slot p ends
Return(p, path, c, using_reflist) ==
    /\ pc' = [pc EXCEPT ![p] = "done"]
    /\ result' = [result EXCEPT ![p] = [st |-> "returned", path |-> path, err |-> ""]]
    /\ last' = IF using_reflist
               THEN [last EXCEPT ![c.kind][basename(c.source)] =
                                     IF c.reuse = "True" THEN path ELSE NoPath]
               ELSE last
    /\ recent' = IF using_reflist /\ path # NoPath
                 THEN [recent EXCEPT ![c.kind][basename(c.source)] =
                                         [path |-> path, reuse |-> c.reuse]]
                 ELSE recent

\* d2vwitch / ffmsindex from the call to the start of the external tool:
\* the construction of Index_managment_prep, the branch that returns an
\* existing index (for d2v after correct_byte_for_range), the command line.
Begin(p, index_ext, source, reuse, exec_dir, indexing_dir, fallback_tool_dir, onPath, opts) ==
    /\ pc[p] = "idle"
    /\ \E o \in Index_managment_prep(fs, nsdirs, names, index_ext, source, reuse,
                                     exec_dir, indexing_dir, fallback_tool_dir, onPath) :
         LET c == IF o.err # ""
                  THEN \* the arguments the constructor has tested
                       [NoCall EXCEPT !.source = source, !.reuse = reuse,
                                      !.indexing_dir = indexing_dir]
                  ELSE [kind |-> index_ext, source |-> source, reuse |-> reuse,
                        indexing_dir |-> indexing_dir, opts |-> opts,
                        pre |-> Snapshot(index_ext, source, indexing_dir)]
             pr == [NoPrep EXCEPT !.isIndexing = o.isIndexing,
                                  !.index_path = o.index_path,
                                  !.reflist_name = o.reflist_name,
                                  !.file_index_ref = o.file_index_ref,
                                  !.using_reflist = o.using_reflist,
                                  !.indexing_dir = o.indexing_dir]
             cb == correct_byte_for_range(o.fs[o.index_path].text,
                                          parse_input_range(opts, "limited"))
             correct == needs_correction(index_ext, o.isIndexing)
             \* the exception that ends the call: the one of the constructor,
             \* or the one of open(d2v_path, 'r+') in correct_byte_for_range
             \* (line 634, outside the try)
             err == IF o.err # "" THEN o.err
                    ELSE IF correct /\ ~exists(o.fs, o.index_path)
                    THEN "FileNotFoundError"
                    ELSE IF correct /\ ~o.fs[o.index_path].rw
                    THEN "PermissionError"
                    ELSE ""
         IN  /\ o.names + (IF o.err = "" /\ o.isIndexing /\ o.using_reflist THEN 1 ELSE 0)
                    <= MaxNames
             /\ o.dumpFailed => nfaults < MaxFaults
             /\ nfaults' = IF o.dumpFailed THEN nfaults + 1 ELSE nfaults
             /\ nsdirs' = o.nsdirs
             /\ names' = o.names
             /\ faulted' = IF o.dumpFailed THEN [faulted EXCEPT ![index_ext] = TRUE]
                           ELSE faulted
             /\ IF err # ""
                THEN \* the call raised
                     /\ fs' = o.fs
                     /\ pc' = [pc EXCEPT ![p] = "done"]
                     /\ call' = [call EXCEPT ![p] = c]
                     /\ prep' = [prep EXCEPT ![p] = IF o.err # "" THEN NoPrep ELSE pr]
                     /\ result' = [result EXCEPT ![p] =
                                      [st |-> "raised", path |-> NoPath, err |-> err]]
                     /\ log' = [log EXCEPT ![p] = o.log]
                     /\ UNCHANGED <<last, recent>>
                ELSE IF ~o.isIndexing
                THEN \* NO INDEXING, using existing index path
                     /\ call' = [call EXCEPT ![p] = c]
                     /\ prep' = [prep EXCEPT ![p] = [pr EXCEPT !.corrected = correct]]
                     /\ IF correct
                        THEN /\ fs' = put(o.fs, o.index_path,
                                          [o.fs[o.index_path] EXCEPT !.text = cb.text])
                             /\ log' = [log EXCEPT ![p] = o.log \cup cb.log]
                        ELSE /\ fs' = o.fs
                             /\ log' = [log EXCEPT ![p] = o.log]
                     /\ Return(p, o.index_path, c, o.using_reflist)
                ELSE \* INDEXING: run_process(cmd) starts the tool and blocks
                     /\ fs' = o.fs
                     /\ call' = [call EXCEPT ![p] = c]
                     /\ prep' = [prep EXCEPT ![p] = [pr EXCEPT !.ran = TRUE,
                                                              !.proc = "running"]]
                     /\ pc' = [pc EXCEPT ![p] = "running"]
                     /\ result' = [result EXCEPT ![p] = NoResult]
                     /\ log' = [log EXCEPT ![p] = o.log]
                     /\ UNCHANGED <<last, recent>>
    /\ UNCHANGED <<gen, probe, patched, loader, heap, ui>>

\* The arguments the calls are made with: every combination of valid
\* arguments, and each invalid value of one argument with the others valid
\* (the constructor stops at the first invalid argument it meets).
\* tool is <<exec_dir, fallback_tool_dir, what shutil.which finds>>.
ValidTools == {<<"bin", "", "none">>, <<"binexe", "", "none">>, <<"", "bin", "none">>}
InvalidTools == {<<"", "", "file">>, <<"", "", "none">>, <<"", "nodir", "none">>,
                 <<"nodir", "", "none">>, <<"emptydir", "", "file">>}
ValidArgs == [source : Sources, reuse : {"True", "False"}, indexing_dir : {"cache"},
              tool : ValidTools]
DefaultArgs == [source |-> SrcA, reuse |-> "True", indexing_dir |-> "cache",
                tool |-> <<"bin", "", "none">>]
CallArgs ==
    ValidArgs
    \cup {[DefaultArgs EXCEPT !.source = x] : x \in SourceArgs \ Sources}
    \cup {[DefaultArgs EXCEPT !.reuse = x] : x \in ReuseArgs \ {"True", "False"}}
    \cup {[DefaultArgs EXCEPT !.indexing_dir = x] : x \in CacheDirs \ {"", "cache"}}
    \cup {[DefaultArgs EXCEPT !.tool = x] : x \in InvalidTools}

d2vwitch(p) ==
    \E a \in CallArgs, opts \in Options :
        Begin(p, "d2v", a.source, a.reuse, a.tool[1], a.indexing_dir, a.tool[2], a.tool[3], opts)

ffmsindex(p) ==
    \E a \in CallArgs :
        Begin(p, "ffindex", a.source, a.reuse, a.tool[1], a.indexing_dir, a.tool[2], a.tool[3], <<>>)

\* The calls of specification SpecCo: no indexing_dir, or one that is no
\* directory, with every combination of the other arguments.
CoArgs == [source : SourceArgs, reuse : ReuseArgsAll, indexing_dir : {"", "nocache"},
           tool : ValidTools \cup InvalidTools]

d2vwitch_colocated(p) ==
    \E a \in CoArgs, opts \in Options :
        Begin(p, "d2v", a.source, a.reuse, a.tool[1], a.indexing_dir, a.tool[2], a.tool[3], opts)

ffmsindex_colocated(p) ==
    \E a \in CoArgs :
        Begin(p, "ffindex", a.source, a.reuse, a.tool[1], a.indexing_dir, a.tool[2], a.tool[3], <<>>)

\* line 587 / 608: isSuccess and Path(prep.index_path).is_file()
indexed_exitOnly(isSuccess, f, index_path) == isSuccess
indexed_fileOnly(isSuccess, f, index_path) == exists(f, index_path)
indexed(isSuccess, f, index_path) == isSuccess /\ exists(f, index_path)

\* line 658: file_index_ref[Path(file).name] = index_path
set_reference_dropped(ref, key, index_path) == ref
set_reference(ref, key, index_path) == (key :> index_path) @@ ref

\* lines 665-667: the old reference list, if it is a file, is removed
remove_old_file_kept(f, old) == f
\* the old list removed together with the index files it records
remove_old_file_withIndexes(f, old) ==
    IF exists(f, old)
    THEN LET gone == {old} \cup (IF f[old].t = "json"
                                 THEN {f[old].map[k] : k \in DOMAIN f[old].map} ELSE {})
         IN  [q \in DOMAIN f \ gone |-> f[q]]
    ELSE f
remove_old_file(f, old) == IF exists(f, old) THEN remove(f, old) ELSE f

\* process(cmd, result), the body of the thread run_process starts:
\* os.system(cmd) returns, the tool having exited with status code and
\* having written its output file or not
process(p) ==
    /\ pc[p] = "running"
    /\ prep[p].proc = "running"
    /\ \E code \in {0, 1}, wrote \in BOOLEAN, text \in ToolOutputs(call[p].kind) :
         \* the tool cannot write over a file that is not writable
         /\ wrote => (exists(fs, prep[p].index_path) => fs[prep[p].index_path].rw)
         /\ fs' = IF wrote
                  THEN put(fs, prep[p].index_path,
                           [t |-> "index", text |-> text, src |-> call[p].source,
                            rw |-> TRUE])
                  ELSE fs
         /\ prep' = [prep EXCEPT ![p] = [@ EXCEPT !.proc = "exited", !.exit0 = code = 0,
                                                   !.wrote = wrote]]
    /\ UNCHANGED <<nsdirs, names, pc, call, result, log, last, gen, faulted, nfaults,
                   probe, patched, loader, recent, heap, ui>>

\* line 621: p.join() returns when the thread has ended
joined_nowait(proc) == proc \in {"running", "exited"}
joined(proc) == proc = "exited"

\* run_process(cmd) from the return of p.join() (lines 621-624), then the
\* test of line 587 / 608 and the branch that reports the failure.
run_process(p) ==
    /\ pc[p] = "running"
    /\ joined(prep[p].proc)
    /\ LET pr == prep[p]
           \* results[0] == 0
           isSuccess == pr.proc = "exited" /\ pr.exit0
           ok == indexed(isSuccess, fs, pr.index_path)
       IN  /\ prep' = [prep EXCEPT ![p] = [pr EXCEPT !.fileThere = exists(fs, pr.index_path)]]
           /\ IF ok /\ pr.using_reflist
              THEN /\ pc' = [pc EXCEPT ![p] = "update"]
                   /\ UNCHANGED <<result, last, recent, log>>
              ELSE IF ok
              THEN /\ Return(p, pr.index_path, call[p], FALSE)
                   /\ log' = log
              ELSE /\ Return(p, NoPath, call[p], pr.using_reflist)
                   /\ log' = [log EXCEPT ![p] = @ \cup {"err_indexing"}]
    /\ UNCHANGED <<fs, nsdirs, names, call, gen, faulted, nfaults, probe, patched, loader, heap, ui>>

\* update_index_path_reference up to the test of isDumped (lines 656-663),
\* and its else branch
update_index_path_reference(p) ==
    /\ pc[p] = "update"
    /\ names < MaxNames
    /\ \E o \in DumpOutcomes :
         LET pr == prep[p]
             key == basename(call[p].source)
             ld == json_load(fs, pr.indexing_dir, pr.reflist_name)
             ref == IF pr.file_index_ref = EmptyMap THEN ld.map ELSE pr.file_index_ref
             ref1 == set_reference(ref, key, pr.index_path)
             new == [head |-> list_prefix(call[p].kind), rnd |-> random_name(names),
                     ext |-> ""]
             d == json_dump(fs, pr.indexing_dir, new, ref1, o)
             old == join(pr.indexing_dir, pr.reflist_name)
         IN  IF ~isinstance_dict(ref)
             THEN \* line 658: the item assignment raises TypeError
                  /\ o = "ok"
                  /\ pc' = [pc EXCEPT ![p] = "done"]
                  /\ result' = [result EXCEPT ![p] =
                                   [st |-> "raised", path |-> NoPath, err |-> "TypeError"]]
                  /\ log' = [log EXCEPT ![p] =
                                @ \cup (IF pr.file_index_ref = EmptyMap THEN ld.log ELSE {})]
                  /\ UNCHANGED <<fs, names, prep, last, recent, gen, faulted, nfaults>>
             ELSE
             /\ ~d.isDumped => nfaults < MaxFaults
             /\ nfaults' = IF d.isDumped THEN nfaults ELSE nfaults + 1
             /\ fs' = d.fs
             /\ names' = names + 1
             /\ prep' = [prep EXCEPT ![p] =
                            [pr EXCEPT !.dumped = o, !.new_name = new,
                                       !.oldMap = IF exists(fs, old) /\ fs[old].t = "json"
                                                  THEN fs[old].map ELSE EmptyMap]]
             /\ IF d.isDumped
                THEN /\ pc' = [pc EXCEPT ![p] = "remove"]
                     /\ gen' = [gen EXCEPT ![call[p].kind][key] = pr.index_path]
                     /\ log' = [log EXCEPT ![p] =
                                   @ \cup (IF pr.file_index_ref = EmptyMap THEN ld.log ELSE {})]
                     /\ UNCHANGED <<result, last, recent, faulted>>
                ELSE /\ Return(p, pr.index_path, call[p], TRUE)
                     /\ log' = [log EXCEPT ![p] =
                                   @ \cup d.log \cup {"err_store_reference"}
                                     \cup (IF pr.file_index_ref = EmptyMap THEN ld.log ELSE {})]
                     /\ faulted' = [faulted EXCEPT ![call[p].kind] = TRUE]
                     /\ gen' = gen
    /\ UNCHANGED <<nsdirs, call, probe, patched, loader, heap, ui>>

\* lines 664-667: the old reference list is removed, and index() returns
remove_old(p) ==
    /\ pc[p] = "remove"
    /\ fs' = remove_old_file(fs, join(prep[p].indexing_dir, prep[p].reflist_name))
    /\ Return(p, prep[p].index_path, call[p], TRUE)
    /\ UNCHANGED <<nsdirs, names, call, prep, log, gen, faulted, nfaults, probe, patched, loader, heap, ui>>

\* the caller has the result of the call of slot p
Finish(p) ==
    /\ pc[p] = "done"
    /\ pc' = [pc EXCEPT ![p] = "idle"]
    /\ call' = [call EXCEPT ![p] = NoCall]
    /\ prep' = [prep EXCEPT ![p] = NoPrep]
    /\ result' = [result EXCEPT ![p] = NoResult]
    /\ log' = [log EXCEPT ![p] = {}]
    /\ UNCHANGED <<fs, nsdirs, names, last, gen, faulted, nfaults, probe, patched, loader, recent, heap, ui>>

\* the user deletes an index file
DeleteArtifact ==
    /\ \A p \in Procs : pc[p] # "done"
    /\ \E q \in DOMAIN fs :
         /\ fs[q].t = "index"
         /\ fs' = remove(fs, q)
    /\ UNCHANGED <<nsdirs, names, pc, call, prep, result, log, last, gen, faulted, nfaults,
                   probe, patched, loader, recent, heap, ui>>

\* another program writes a JSON document that is no object over a
\* reference list
Tamper ==
    /\ \A p \in Procs : pc[p] # "done"
    /\ \E q \in DOMAIN fs :
         /\ fs[q].t = "json"
         /\ fs' = put(fs, q, [t |-> "nondict"])
    /\ UNCHANGED <<nsdirs, names, pc, call, prep, result, log, last, gen, faulted, nfaults,
                   probe, patched, loader, recent, heap, ui>>

\* the user takes the write permission of an index file away
Protect ==
    /\ \A p \in Procs : pc[p] # "done"
    /\ \E q \in DOMAIN fs :
         /\ fs[q].t = "index" /\ fs[q].rw
         /\ fs' = put(fs, q, [fs[q] EXCEPT !.rw = FALSE])
    /\ UNCHANGED <<nsdirs, names, pc, call, prep, result, log, last, gen, faulted, nfaults,
                   probe, patched, loader, recent, heap, ui>>

\* The file contents correct_byte_for_range is tried on: up to MaxLines
\* lines, each a line of a d2v file with or without the marker, the last
\* one with or without its line end.
PatchLines ==
    {<<"D">>, <<>>, MARKER, MARKER \o <<"=", "0">>, MARKER \o <<"=", "1">>,
     <<" ">> \o MARKER \o <<"=", "1">>}
RECURSIVE JoinLines(_)
JoinLines(lines) ==
    IF lines = <<>> THEN <<>> ELSE Head(lines) \o <<"\n">> \o JoinLines(Tail(lines))
PatchTexts ==
    LET seqs == UNION {[1..k -> PatchLines] : k \in 0..MaxLines}
        ended == {JoinLines(ls) : ls \in seqs}
    IN  ended \cup {SubSeq(t, 1, Len(t) - 1) : t \in ended \ {<<>>}}
NoPatch == [set |-> FALSE, text |-> <<>>, input_range |-> "",
            once |-> [text |-> <<>>, log |-> {}], twice |-> [text |-> <<>>, log |-> {}]]

(* ---------------------------- Sources.get_data -------------------------- *)
\* the items of a sources list: paths of files, and a path that is no file
Items == {"v1.mkv", "v2.mpg", "nofile"}
\* how load_source ends for a source: with a clip, with a value that is no
\* vs.VideoNode, or with an exception (e.g. the one index() raised)
LoadOutcomes == {"clip", "notclip", "ExecutableNotInPATHError", "NoClipError", "Exception"}

\* Clip_data(): the fields the model follows
Clip_data ==
    [clip |-> "None", load_isError |-> FALSE, load_log |-> <<>>, load_log_error |-> <<>>,
     load_error_exec_path |-> "", source_label |-> "", source_path |-> ""]

\* a log message: src is the position in the list of the source whose
\* loading logged it, 0 for a message logged outside the loading of a source
Msg(src, text) == [src |-> src, text |-> text]

\* clear_logs, on either buffer
clear_logs_kept(buffer) == buffer
clear_logs(buffer) == <<>>

\* validate_sources for a list of paths: SourceError for a path that is no
\* file (line 378)
validate_sources(items) == \A k \in 1..Len(items) : items[k] # "nofile"

\* error_data, the fields it sets (its message goes to logger_error)
error_data(data, e) ==
    [data EXCEPT !.load_isError = TRUE,
                 !.load_error_exec_path = IF e = "ExecutableNotInPATHError" THEN "tool" ELSE "",
                 !.clip = "BLANK.text"]

NoLoad == [at |-> "idle", sources |-> <<>>, valid |-> FALSE, i |-> 0, dataclasses |-> <<>>,
           outcomes |-> <<>>, log_string |-> <<>>, log_string_error |-> <<>>]

\* the functions of the module used outside get_data log to the same buffers
log_elsewhere ==
    /\ loader.at = "idle"
    /\ \/ /\ loader.log_string = <<>>
          /\ loader' = [loader EXCEPT !.log_string = <<Msg(0, "info")>>]
       \/ /\ loader.log_string_error = <<>>
          /\ loader' = [loader EXCEPT !.log_string_error = <<Msg(0, "error")>>]
    /\ UNCHANGED <<fs, nsdirs, names, pc, call, prep, result, log, last, gen, faulted,
                   nfaults, probe, patched, recent, heap, ui>>

\* get_data up to the loop (lines 233-243)
get_data ==
    /\ loader.at = "idle"
    /\ \E items \in UNION {[1..n -> Items] : n \in 0..MaxSources} :
         LET log0 == clear_logs(loader.log_string)
             err0 == clear_logs(loader.log_string_error)
             err1 == Append(err0, Msg(0, "SourceError"))
             data == [error_data(Clip_data, "SourceError")
                         EXCEPT !.source_label = "source error",
                                !.load_log = <<Msg(0, "could not load source")>>,
                                !.load_log_error = err1]
         IN  IF validate_sources(items)
             THEN loader' = [at |-> "loop", sources |-> items, valid |-> TRUE, i |-> 1,
                             dataclasses |-> <<>>, outcomes |-> <<>>,
                             log_string |-> log0, log_string_error |-> err0]
             ELSE loader' = [at |-> "returned", sources |-> items, valid |-> FALSE, i |-> 0,
                             dataclasses |-> <<data>>, outcomes |-> <<>>,
                             log_string |-> log0, log_string_error |-> err1]
    /\ UNCHANGED <<fs, nsdirs, names, pc, call, prep, result, log, last, gen, faulted,
                   nfaults, probe, patched, recent, heap, ui>>

\* one pass of the loop of get_data (lines 244-280)
load_source ==
    /\ loader.at = "loop"
    /\ loader.i <= Len(loader.sources)
    /\ \E outcome \in LoadOutcomes :
         LET i == loader.i
             data0 == [Clip_data EXCEPT !.source_label = loader.sources[i],
                                        !.source_path = loader.sources[i]]
             \* load_source logs the plugin it takes before it calls it
             log1 == Append(loader.log_string, Msg(i, "info"))
             err1 == IF outcome = "clip" THEN loader.log_string_error
                     ELSE Append(loader.log_string_error, Msg(i, outcome))
             data1 == IF outcome = "clip" THEN [data0 EXCEPT !.clip = "clip"]
                      ELSE IF outcome = "notclip"
                      THEN [data0 EXCEPT !.clip = "BLANK", !.load_isError = TRUE]
                      ELSE error_data(data0, outcome)
             data == [data1 EXCEPT !.load_log = log1, !.load_log_error = err1]
         IN  loader' = [loader EXCEPT !.i = i + 1,
                                      !.dataclasses = Append(@, data),
                                      !.outcomes = Append(@, outcome),
                                      !.log_string = clear_logs(log1),
                                      !.log_string_error = clear_logs(err1)]
    /\ UNCHANGED <<fs, nsdirs, names, pc, call, prep, result, log, last, gen, faulted,
                   nfaults, probe, patched, recent, heap, ui>>

\* line 281: return self.dataclasses
get_data_return ==
    /\ loader.at = "loop"
    /\ loader.i > Len(loader.sources)
    /\ loader' = [loader EXCEPT !.at = "returned"]
    /\ UNCHANGED <<fs, nsdirs, names, pc, call, prep, result, log, last, gen, faulted,
                   nfaults, probe, patched, recent, heap, ui>>

\* the caller has the list
get_data_taken ==
    /\ loader.at = "returned"
    /\ loader' = [NoLoad EXCEPT !.log_string = loader.log_string,
                                !.log_string_error = loader.log_string_error]
    /\ UNCHANGED <<fs, nsdirs, names, pc, call, prep, result, log, last, gen, faulted,
                   nfaults, probe, patched, recent, heap, ui>>

(* --------------------------- Sources.__init__ -------------------------- *)
\* Python dicts are functions from keys to values, and a dict that is held
\* by more than one name is an object of heap.obj, named by its id: the
\* value of 'plugin_map' in a settings dict is the id of the plugin map.
\* A plugin map gives each label the keyword dict of its entry (the list
\* of extensions, which nothing here changes, is left out).
IdSettings == <<"DEFAULT_SETTINGS", 0>>
IdPluginMap == <<"DEFAULT_PLUGIN_MAP", 0>>
DEFAULT_PLUGIN_MAP ==
    [mpeg2_Source |-> ("d2vwitch_options" :> "D2VWITCH_OPTIONS"),
     ffms2_Source |-> EmptyMap]
DEFAULT_SETTINGS ==
    [ffmsindex_dir |-> "", d2vwitch_dir |-> "", indexing_dir |-> "tmp",
     re_use_indexing |-> "True", plugin_map |-> IdPluginMap]
DirKeys == {"ffmsindex_dir", "d2vwitch_dir", "indexing_dir"}
INI_FILE_DIRECTORY == [root |-> "appdir", sub |-> "", leaf |-> ""]
INI_FILENAME == [head |-> "load_ini.json", rnd |-> 0, ext |-> ""]

\* the keyword arguments a Sources instance is constructed with; "absent"
\* is a keyword that is not passed, "int5" a value that is no string
Kwargs ==
    [indexing_dir : {"absent", "cache"}, re_use_indexing : {"absent", "False"},
     d2vwitch_dir : {"absent", "bin", "int5"}, fallback_tool_dir : {"absent", "bin"}]
Passed(kw) == {k \in DOMAIN kw : kw[k] # "absent"}
\* dict.update(**kwargs)
update(d, kw) ==
    [k \in DOMAIN d \cup Passed(kw) |-> IF k \in Passed(kw) THEN kw[k] ELSE d[k]]
\* isinstance(directory, str)
isinstance_str(v) == v # "int5"
\* what json.dump writes for a settings dict: the plugin map itself in the
\* place of its id
Deref(obj, d) ==
    [k \in DOMAIN d |-> IF k = "plugin_map" THEN obj[d[k]] ELSE d[k]]

\* eval_settings: for each key of DEFAULT_SETTINGS the loaded value, or the
\* default (the object itself) when the key is missing.  The loaded plugin
\* map is a new dict, the object id.
eval_settings(settings, defaults, id) ==
    [k \in DOMAIN defaults |->
        IF k \notin DOMAIN settings THEN defaults[k]
        ELSE IF k = "plugin_map" THEN id
        ELSE settings[k]]

\* load_ini_eval.  Result: [settings, obj, fs]: the dict it returns (EmptyMap
\* for {}), the objects, the file system.  n numbers the new objects.
load_ini_eval(f, obj, directory, filename, n, outcome) ==
    LET path == join(directory, filename)
        ld == json_load(f, directory, filename)
        id == <<"plugin_map", n>>
    IN  IF ~isdir(directory.root)
        THEN [settings |-> EmptyMap, obj |-> obj, fs |-> f]
        ELSE IF ~exists(f, path)
        THEN [settings |-> EmptyMap, obj |-> obj,
              fs |-> json_dump(f, directory, filename,
                               Deref(obj, obj[IdSettings]), outcome).fs]
        ELSE [settings |-> eval_settings(ld.map, obj[IdSettings], id),
              obj |-> IF "plugin_map" \in DOMAIN ld.map
                      THEN (id :> ld.map["plugin_map"]) @@ obj ELSE obj,
              fs |-> f]

\* load_settings.  Result: [ref, obj, fs]: the id of the dict it returns,
\* which is DEFAULT_SETTINGS itself when load_ini_eval returned {}.
load_settings(f, obj, directory, filename, n, outcome) ==
    LET r == load_ini_eval(f, obj, directory, filename, n, outcome)
        id == <<"settings", n>>
    IN  IF r.settings = EmptyMap
        THEN [ref |-> IdSettings, obj |-> r.obj, fs |-> r.fs]
        ELSE [ref |-> id, obj |-> (id :> r.settings) @@ r.obj, fs |-> r.fs]

\* the module as imported: the two default dicts, no instance
NoHeap ==
    [obj |-> (IdSettings :> DEFAULT_SETTINGS) @@ (IdPluginMap :> DEFAULT_PLUGIN_MAP),
     inst |-> <<>>]

\* Sources(**kwargs): load_settings, settings.update(**kwargs), the test of
\* the directories, and the move of fallback_tool_dir into the plugin map
Sources__init__ ==
    /\ Len(heap.inst) < MaxInstances
    /\ \E kw \in Kwargs, outcome \in DumpOutcomes :
         LET n == Len(heap.inst) + 1
             ld == load_settings(fs, heap.obj, INI_FILE_DIRECTORY, INI_FILENAME, n, outcome)
             s1 == update(ld.obj[ld.ref], kw)
             obj1 == [ld.obj EXCEPT ![ld.ref] = s1]
             raised == \E k \in DirKeys : ~isinstance_str(s1[k])
             pm == s1["plugin_map"]
             d == "fallback_tool_dir" :> s1["fallback_tool_dir"]
             obj2 == [obj1 EXCEPT
                        ![pm] = [@ EXCEPT !["ffms2_Source"] = d @@ @,
                                          !["mpeg2_Source"] = d @@ @],
                        ![ld.ref] = [k \in DOMAIN s1 \ {"fallback_tool_dir"} |-> s1[k]]]
         IN  /\ fs' = ld.fs
             /\ heap' = [obj |-> IF raised \/ "fallback_tool_dir" \notin DOMAIN s1
                                 THEN obj1 ELSE obj2,
                         inst |-> Append(heap.inst,
                                         [settings |-> ld.ref, kwargs |-> kw,
                                          raised |-> raised])]
    /\ UNCHANGED <<nsdirs, names, pc, call, prep, result, log, last, gen, faulted, nfaults,
                   probe, patched, loader, recent, ui>>

(* ------------------------------ Settings_UI ---------------------------- *)
\* The text of the kwargs entry is the sequence of its comma-separated
\* pairs, each pair the sequence of its pieces between the "=" signs.
KwargsStrings == {<<>>, << <<"a">> >>}
\* what a user types into the add-plugin entry
AddLabels == {"", "mine", "mpeg2_Source"}
\* list(DEFAULT_PLUGIN_MAP): the labels in the order of the dict
PluginOrder == <<"mpeg2_Source", "ffms2_Source">>
mandatory_plugins ==
    <<"mpeg2_Source", "d2v.Source", "ffms2_Source", "vs_Source", "avs_Source", "imwri_Read">>
\* the decorated handlers
Guarded == {"add_plugin", "delete_plugin", "reset", "close"}

\* list membership, list.index (0-based, -1 for what a Combobox reports as
\* no current item), list.remove
InList(seq, x) == \E i \in 1..Len(seq) : seq[i] = x
IndexOf(seq, x) ==
    IF InList(seq, x) THEN (CHOOSE i \in 1..Len(seq) : seq[i] = x /\ \A j \in 1..(i - 1) : seq[j] # x) - 1
    ELSE -1
ListRemove(seq, x) ==
    LET i == IndexOf(seq, x) + 1
    IN  [j \in 1..(Len(seq) - 1) |-> IF j < i THEN seq[j] ELSE seq[j + 1]]

\* dict_to_string: k=v for every item, a string value in double quotes
quoted(v) == "\"" \o v \o "\""
RECURSIVE dict_to_string(_)
dict_to_string(kwargs) ==
    IF DOMAIN kwargs = {} THEN <<>>
    ELSE LET k == CHOOSE x \in DOMAIN kwargs : TRUE
         IN  <<<<k, quoted(kwargs[k])>>>>
             \o dict_to_string([x \in DOMAIN kwargs \ {k} |-> kwargs[x]])
\* string_to_dict: dict(pair.split("=") for pair in string.split(","))
\* raises unless every pair has two pieces; a value that reads as an
\* integer becomes one, a quoted value loses its quotes
string_to_dict_raises(string) == \E i \in 1..Len(string) : Len(string[i]) # 2
string_to_dict_value(v) ==
    IF v = "1" THEN 1
    ELSE IF v = quoted("D2VWITCH_OPTIONS") THEN "D2VWITCH_OPTIONS"
    ELSE v
string_to_dict(string) ==
    [k \in {string[i][1] : i \in 1..Len(string)} |->
        string_to_dict_value(string[CHOOSE i \in 1..Len(string) :
                                        /\ string[i][1] = k
                                        /\ \A j \in (i + 1)..Len(string) : string[j][1] # k][2])]
make_plugin_map_strings(plugin_map_dict) ==
    [k \in DOMAIN plugin_map_dict |-> dict_to_string(plugin_map_dict[k])]
make_plugin_map_dict(u) ==
    [k \in DOMAIN u.plugin_map_strings |-> string_to_dict(u.plugin_map_strings[k])]
make_plugin_map_dict_raises(u) ==
    \E k \in DOMAIN u.plugin_map_strings : string_to_dict_raises(u.plugin_map_strings[k])

\* Settings_UI.__init__ on the default settings: the state of the instance
\* (the fields of self, the Tk variables and the Combobox); 'executing' is
\* the decorated handler whose message box is open, 'asked' the label its
\* question is about
NoUI ==
    LET general == [k \in DOMAIN DEFAULT_SETTINGS \ {"plugin_map"} |-> DEFAULT_SETTINGS[k]]
        strings == make_plugin_map_strings(DEFAULT_PLUGIN_MAP)
    IN  [master |-> "constructed",
         window |-> [on |-> FALSE, plugin_label |-> "mpeg2_Source"],
         loaded_tab_general |-> general, loaded_tab_general_backup |-> general,
         plugin_map_strings |-> strings, plugin_map_strings_backup |-> strings,
         var_general |-> general, var_kwargs |-> <<>>,
         plugin_box_values |-> PluginOrder, plugin_box_var |-> "",
         delete_plugin_button |-> "lifted",
         disable_saving_settings |-> FALSE,
         plugin_errors |-> <<>>, messagebox_open |-> FALSE,
         executing |-> "none", asked |-> ""]

\* The operators below take the instance u and give [ui, raised]: the
\* instance as the method leaves it and whether it raised.
\* fill_tab_plugin_map: plugin_map_strings[plugin_label] is a KeyError for
\* a label that is not in the dict
fill_tab_plugin_map(u, plugin_label) ==
    LET hide == /\ InList(mandatory_plugins, plugin_label)
                /\ IndexOf(u.plugin_box_values, u.plugin_box_var)
                       <= IndexOf(mandatory_plugins, plugin_label)
        u1 == [u EXCEPT !.window.plugin_label = plugin_label,
                        !.delete_plugin_button = IF hide THEN "lowered" ELSE "lifted"]
    IN  IF plugin_label \in DOMAIN u.plugin_map_strings
        THEN [ui |-> [u1 EXCEPT !.var_kwargs = u.plugin_map_strings[plugin_label]],
              raised |-> FALSE]
        ELSE [ui |-> u1, raised |-> TRUE]
fill_plugin(u, plugin_label) ==
    fill_tab_plugin_map([u EXCEPT !.plugin_box_var = plugin_label], plugin_label)
fill_gui(u, plugin_label) ==
    fill_plugin([u EXCEPT !.var_general = u.loaded_tab_general], plugin_label)
backup_saved_settings(u) ==
    [u EXCEPT !.loaded_tab_general_backup = u.loaded_tab_general,
              !.plugin_map_strings_backup = u.plugin_map_strings]
is_save_needed(u) ==
    ~ (/\ u.loaded_tab_general_backup = u.loaded_tab_general
       /\ u.plugin_map_strings = u.plugin_map_strings_backup)
collect_tab_plugin_map(u, plugin_label) ==
    [u EXCEPT !.plugin_map_strings = (plugin_label :> u.var_kwargs) @@ @]
eval_collect_tab_plugin_map(u) ==
    LET plugin_label == u.plugin_box_var
        u1 == collect_tab_plugin_map(u, plugin_label)
        isOK == ~string_to_dict_raises(u.var_kwargs)
    IN  [u1 EXCEPT !.plugin_errors =
            IF isOK
            THEN IF InList(@, plugin_label) THEN ListRemove(@, plugin_label) ELSE @
            ELSE IF ~InList(@, plugin_label) THEN Append(@, plugin_label) ELSE @]
collect_gui(u) ==
    eval_collect_tab_plugin_map([u EXCEPT !.loaded_tab_general = u.var_general])
closing(u) == [u EXCEPT !.window.on = FALSE, !.master = "destroyed"]

\* save.  Result: [ui, fs, isSaved, raised].  The plugin labels are gone
\* through in the order of the Combobox.
save_errors(u) ==
    {i \in 1..Len(u.plugin_box_values) :
        /\ u.plugin_box_values[i] \in DOMAIN u.plugin_map_strings
        /\ InList(u.plugin_errors, u.plugin_box_values[i])}
save_result(u, f, outcome) ==
    LET c == collect_gui([u EXCEPT !.disable_saving_settings = TRUE])
        first == u.plugin_box_values[CHOOSE i \in save_errors(c) :
                                         \A j \in save_errors(c) : i <= j]
        hl == fill_plugin(c, first)
        b == backup_saved_settings(c)
        settings == [k \in DOMAIN b.loaded_tab_general \cup {"plugin_map"} |->
                        IF k = "plugin_map" THEN make_plugin_map_dict(b)
                        ELSE b.loaded_tab_general[k]]
    IN  IF u.disable_saving_settings
        THEN [ui |-> u, fs |-> f, isSaved |-> FALSE, raised |-> FALSE]
        ELSE IF save_errors(c) # {}
        THEN [ui |-> [hl.ui EXCEPT !.disable_saving_settings = hl.raised], fs |-> f,
              isSaved |-> FALSE, raised |-> hl.raised]
        ELSE IF ~is_save_needed(c)
        THEN [ui |-> [c EXCEPT !.disable_saving_settings = FALSE], fs |-> f,
              isSaved |-> TRUE, raised |-> FALSE]
        ELSE IF make_plugin_map_dict_raises(b)
        THEN [ui |-> b, fs |-> f, isSaved |-> FALSE, raised |-> TRUE]
        ELSE [ui |-> [b EXCEPT !.disable_saving_settings = FALSE],
              fs |-> json_dump(f, INI_FILE_DIRECTORY, INI_FILENAME, settings, outcome).fs,
              isSaved |-> TRUE, raised |-> FALSE]

\* one_messagebox_at_a_time, line 1059: what follows f(self).  A handler
\* that raised leaves wrap through the exception, which Tk reports and
\* drops; one that returned has messagebox_open set back.
wrap_leaves_open(u) == [u EXCEPT !.executing = "none", !.asked = ""]
wrap_returned(r) ==
    IF r.raised THEN wrap_leaves_open(r.ui)
    ELSE [r.ui EXCEPT !.messagebox_open = FALSE, !.executing = "none", !.asked = ""]
\* lines 1056-1057: the handler admitted, and the box it is about to show
wrap_entered(u, h) == [u EXCEPT !.messagebox_open = TRUE, !.executing = h]
Idle == ui.master = "shown" /\ ui.executing = "none"
Admitted == Idle /\ ui.messagebox_open = FALSE

\* open(): fill_gui, backup_saved_settings, show
open ==
    /\ ui.master = "constructed"
    /\ LET plugin_label == IF InList(ui.plugin_box_values, ui.window.plugin_label)
                           THEN ui.window.plugin_label ELSE ui.plugin_box_values[1]
           u == backup_saved_settings(fill_gui(ui, plugin_label).ui)
       IN  ui' = [u EXCEPT !.window.on = TRUE, !.master = "shown"]
    /\ UNCHANGED <<fs, nsdirs, names, pc, call, prep, result, log, last, gen, faulted,
                   nfaults, probe, patched, loader, recent, heap>>

\* the user types into the kwargs entry
type_kwargs ==
    /\ Idle
    /\ \E string \in KwargsStrings : ui' = [ui EXCEPT !.var_kwargs = string]
    /\ UNCHANGED <<fs, nsdirs, names, pc, call, prep, result, log, last, gen, faulted,
                   nfaults, probe, patched, loader, recent, heap>>

\* the Combobox: its postcommand eval_collect_tab_plugin_map when the list
\* drops down, then fill_tab_plugin_map for the label picked
select_plugin ==
    /\ Idle
    /\ \E i \in 1..Len(ui.plugin_box_values) :
         LET c == eval_collect_tab_plugin_map(ui)
             picked == [c EXCEPT !.plugin_box_var = ui.plugin_box_values[i]]
         IN  ui' = fill_tab_plugin_map(picked, picked.plugin_box_var).ui
    /\ UNCHANGED <<fs, nsdirs, names, pc, call, prep, result, log, last, gen, faulted,
                   nfaults, probe, patched, loader, recent, heap>>

\* the save button
save ==
    /\ Idle
    /\ \E outcome \in DumpOutcomes :
         LET r == save_result(ui, fs, outcome)
         IN  ui' = r.ui /\ fs' = r.fs
    /\ UNCHANGED <<nsdirs, names, pc, call, prep, result, log, last, gen, faulted,
                   nfaults, probe, patched, loader, recent, heap>>

\* a decorated handler requested while messagebox_open is true: wrap
\* returns without calling it
wrap_ignored ==
    /\ ui.master = "shown"
    /\ ui.messagebox_open
    /\ \E h \in Guarded : UNCHANGED vars

\* add_plugin: nothing for an empty label, the showinfo box for a label
\* that exists, the new label added and shown otherwise
add_plugin ==
    /\ Admitted
    /\ \E plugin_label \in AddLabels :
         LET u == wrap_entered(ui, "add_plugin")
             added == [u EXCEPT !.plugin_box_values = Append(@, plugin_label),
                                !.plugin_map_strings = (plugin_label :> <<>>) @@ @]
         IN  /\ \/ plugin_label \in DOMAIN ui.plugin_map_strings \cup {""}
                 \/ Len(ui.plugin_box_values) < MaxLabels
             /\ ui' = IF plugin_label = "" THEN wrap_returned([ui |-> u, raised |-> FALSE])
                       ELSE IF plugin_label \in DOMAIN ui.plugin_map_strings
                       THEN [u EXCEPT !.asked = plugin_label]
                       ELSE wrap_returned(fill_plugin(added, plugin_label))
    /\ UNCHANGED <<fs, nsdirs, names, pc, call, prep, result, log, last, gen, faulted,
                   nfaults, probe, patched, loader, recent, heap>>
add_plugin_showinfo ==
    /\ ui.executing = "add_plugin"
    /\ ui' = wrap_returned([ui |-> ui, raised |-> FALSE])
    /\ UNCHANGED <<fs, nsdirs, names, pc, call, prep, result, log, last, gen, faulted,
                   nfaults, probe, patched, loader, recent, heap>>

\* delete_plugin: the button, when it is lifted, asks about the label of
\* the Combobox
delete_plugin ==
    /\ Admitted
    /\ ui.delete_plugin_button = "lifted"
    /\ ui' = [wrap_entered(ui, "delete_plugin") EXCEPT !.asked = ui.plugin_box_var]
    /\ UNCHANGED <<fs, nsdirs, names, pc, call, prep, result, log, last, gen, faulted,
                   nfaults, probe, patched, loader, recent, heap>>
\* lines 1086-1098, after the answer.  plugin_errors is a list: del with
\* the label as its index is a TypeError; del of a label that is not in
\* plugin_map_strings is a KeyError.
delete_plugin_answered(u, response) ==
    LET plugin_label == u.asked
        shown == fill_tab_plugin_map([u EXCEPT !.plugin_box_var = u.plugin_box_values[1]],
                                     u.plugin_box_values[1])
        s == shown.ui
    IN  IF response = "no" THEN [ui |-> u, raised |-> FALSE]
        ELSE IF shown.raised THEN shown
        ELSE IF InList(s.plugin_errors, plugin_label) THEN [ui |-> s, raised |-> TRUE]
        ELSE IF plugin_label \notin DOMAIN s.plugin_map_strings THEN [ui |-> s, raised |-> TRUE]
        ELSE [ui |-> [s EXCEPT
                        !.plugin_map_strings = [k \in DOMAIN @ \ {plugin_label} |-> @[k]],
                        !.plugin_box_values = ListRemove(@, plugin_label)],
              raised |-> FALSE]
delete_plugin_askquestion ==
    /\ ui.executing = "delete_plugin"
    /\ \E response \in {"yes", "no"} : ui' = wrap_returned(delete_plugin_answered(ui, response))
    /\ UNCHANGED <<fs, nsdirs, names, pc, call, prep, result, log, last, gen, faulted,
                   nfaults, probe, patched, loader, recent, heap>>

\* reset
reset ==
    /\ Admitted
    /\ ui' = wrap_entered(ui, "reset")
    /\ UNCHANGED <<fs, nsdirs, names, pc, call, prep, result, log, last, gen, faulted,
                   nfaults, probe, patched, loader, recent, heap>>
reset_answered(u, response) ==
    LET d == [u EXCEPT !.loaded_tab_general = NoUI.loaded_tab_general,
                       !.plugin_map_strings = make_plugin_map_strings(DEFAULT_PLUGIN_MAP)]
    IN  IF response = "no" THEN [ui |-> u, raised |-> FALSE]
        ELSE fill_gui(d, u.window.plugin_label)
reset_askquestion ==
    /\ ui.executing = "reset"
    /\ \E response \in {"yes", "no"} : ui' = wrap_returned(reset_answered(ui, response))
    /\ UNCHANGED <<fs, nsdirs, names, pc, call, prep, result, log, last, gen, faulted,
                   nfaults, probe, patched, loader, recent, heap>>

\* close: collect_gui, then closing() at once when nothing is to be saved,
\* the askyesnocancel box otherwise
close ==
    /\ Admitted
    /\ LET c == collect_gui(wrap_entered(ui, "close"))
       IN  ui' = IF ~is_save_needed(c)
                 THEN wrap_returned([ui |-> closing(c), raised |-> FALSE])
                 ELSE c
    /\ UNCHANGED <<fs, nsdirs, names, pc, call, prep, result, log, last, gen, faulted,
                   nfaults, probe, patched, loader, recent, heap>>
close_askyesnocancel ==
    /\ ui.executing = "close"
    /\ \E response \in {"True", "False", "None"}, outcome \in DumpOutcomes :
         LET r == save_result(ui, fs, outcome)
         IN  IF response = "True"
             THEN /\ ui' = wrap_returned([ui |-> IF r.isSaved THEN closing(r.ui) ELSE r.ui,
                                          raised |-> r.raised])
                  /\ fs' = r.fs
             ELSE /\ ui' = wrap_returned([ui |-> IF response = "False" THEN closing(ui) ELSE ui,
                                          raised |-> FALSE])
                  /\ fs' = fs
    /\ UNCHANGED <<nsdirs, names, pc, call, prep, result, log, last, gen, faulted,
                   nfaults, probe, patched, loader, recent, heap>>

NextUI ==
    \/ open \/ type_kwargs \/ select_plugin \/ save \/ wrap_ignored
    \/ add_plugin \/ add_plugin_showinfo \/ delete_plugin \/ delete_plugin_askquestion
    \/ reset \/ reset_askquestion \/ close \/ close_askyesnocancel

NoProbe == [set |-> FALSE, exec_dir |-> "", name |-> "", fallback_tool_dir |-> "",
            onPath |-> "none", out |-> Raised("", "")]

Init ==
    /\ fs = <<>>
    /\ nsdirs = {}
    /\ names = 0
    /\ pc = [p \in Procs |-> "idle"]
    /\ call = [p \in Procs |-> NoCall]
    /\ prep = [p \in Procs |-> NoPrep]
    /\ result = [p \in Procs |-> NoResult]
    /\ log = [p \in Procs |-> {}]
    /\ last = [k \in Kinds |-> [key \in Keys |-> NoPath]]
    /\ gen = [k \in Kinds |-> [key \in Keys |-> NoPath]]
    /\ faulted = [k \in Kinds |-> FALSE]
    /\ nfaults = 0
    /\ probe = NoProbe
    /\ patched = NoPatch
    /\ loader = NoLoad
    /\ recent = [k \in Kinds |-> [key \in Keys |-> NoRecent]]
    /\ heap = NoHeap
    /\ ui = NoUI

Next ==
    \/ \E p \in Procs : d2vwitch(p)
    \/ \E p \in Procs : ffmsindex(p)
    \/ \E p \in Procs : process(p)
    \/ \E p \in Procs : run_process(p)
    \/ \E p \in Procs : update_index_path_reference(p)
    \/ \E p \in Procs : remove_old(p)
    \/ \E p \in Procs : Finish(p)
    \/ DeleteArtifact

Spec == Init /\ [][Next]_vars

\* the calls that keep the index beside the source
NextCo ==
    \/ \E p \in Procs : d2vwitch_colocated(p)
    \/ \E p \in Procs : ffmsindex_colocated(p)
    \/ \E p \in Procs : process(p)
    \/ \E p \in Procs : run_process(p)
    \/ \E p \in Procs : Finish(p)
    \/ DeleteArtifact

SpecCo == Init /\ [][NextCo]_vars

\* the calls that keep the index in the cache directory, with valid
\* arguments, the reference lists being overwritten by other programs
d2vwitch_valid(p) ==
    \E a \in ValidArgs, opts \in Options :
        Begin(p, "d2v", a.source, a.reuse, a.tool[1], a.indexing_dir, a.tool[2], a.tool[3], opts)

ffmsindex_valid(p) ==
    \E a \in ValidArgs :
        Begin(p, "ffindex", a.source, a.reuse, a.tool[1], a.indexing_dir, a.tool[2], a.tool[3], <<>>)

\* d2vwitch for one source, with each way of writing the range in
\* d2vwitch_options
d2vwitch_ranges(p) ==
    \E reuse \in {"True", "False"}, opts \in OptionsAll :
        Begin(p, "d2v", SrcA, reuse, "bin", "cache", "", "none", opts)

NextRange ==
    \/ \E p \in Procs : d2vwitch_ranges(p)
    \/ \E p \in Procs : process(p)
    \/ \E p \in Procs : run_process(p)
    \/ \E p \in Procs : update_index_path_reference(p)
    \/ \E p \in Procs : remove_old(p)
    \/ \E p \in Procs : Finish(p)

SpecRange == Init /\ [][NextRange]_vars

\* Two threads calling ffmsindex for one source with one cache directory,
\* nothing keeping the calls apart.  The steps of a call are those of the
\* sequential specifications; every interleaving of the steps of two calls
\* is an interleaving the threads can produce.
Concurrent == {1, 2}

InitConc ==
    /\ fs = <<>>
    /\ nsdirs = {}
    /\ names = 0
    /\ pc = [p \in Concurrent |-> "idle"]
    /\ call = [p \in Concurrent |-> NoCall]
    /\ prep = [p \in Concurrent |-> NoPrep]
    /\ result = [p \in Concurrent |-> NoResult]
    /\ log = [p \in Concurrent |-> {}]
    /\ last = [k \in Kinds |-> [key \in Keys |-> NoPath]]
    /\ gen = [k \in Kinds |-> [key \in Keys |-> NoPath]]
    /\ faulted = [k \in Kinds |-> FALSE]
    /\ nfaults = 0
    /\ probe = NoProbe
    /\ patched = NoPatch
    /\ loader = NoLoad
    /\ recent = [k \in Kinds |-> [key \in Keys |-> NoRecent]]
    /\ heap = NoHeap
    /\ ui = NoUI

ffmsindex_same(p) ==
    \E reuse \in {"True", "False"} :
        Begin(p, "ffindex", SrcA, reuse, "bin", "cache", "", "none", <<>>)

NextConc ==
    \/ \E p \in Concurrent : ffmsindex_same(p)
    \/ \E p \in Concurrent : process(p)
    \/ \E p \in Concurrent : run_process(p)
    \/ \E p \in Concurrent : update_index_path_reference(p)
    \/ \E p \in Concurrent : remove_old(p)
    \/ \E p \in Concurrent : Finish(p)

SpecConc == InitConc /\ [][NextConc]_vars

\* calls with a cache directory for two files of the same name whose
\* directories have the same name
d2vwitch_twins(p) ==
    \E source \in {SrcA, SrcTwin}, reuse \in {"True", "False"} :
        Begin(p, "d2v", source, reuse, "bin", "cache", "", "none", OptDefault)

ffmsindex_twins(p) ==
    \E source \in {SrcA, SrcTwin}, reuse \in {"True", "False"} :
        Begin(p, "ffindex", source, reuse, "bin", "cache", "", "none", <<>>)

NextTwins ==
    \/ \E p \in Procs : d2vwitch_twins(p)
    \/ \E p \in Procs : ffmsindex_twins(p)
    \/ \E p \in Procs : process(p)
    \/ \E p \in Procs : run_process(p)
    \/ \E p \in Procs : update_index_path_reference(p)
    \/ \E p \in Procs : remove_old(p)
    \/ \E p \in Procs : Finish(p)

SpecTwins == Init /\ [][NextTwins]_vars

\* calls without a cache directory for two files of one directory with the
\* same stem
d2vwitch_stems(p) ==
    \E source \in {SrcA, SrcAts}, reuse \in {"True", "False"} :
        Begin(p, "d2v", source, reuse, "bin", "", "", "none", OptDefault)

ffmsindex_stems(p) ==
    \E source \in {SrcA, SrcAts}, reuse \in {"True", "False"} :
        Begin(p, "ffindex", source, reuse, "bin", "", "", "none", <<>>)

NextStems ==
    \/ \E p \in Procs : d2vwitch_stems(p)
    \/ \E p \in Procs : ffmsindex_stems(p)
    \/ \E p \in Procs : process(p)
    \/ \E p \in Procs : run_process(p)
    \/ \E p \in Procs : Finish(p)
    \/ DeleteArtifact

SpecStems == Init /\ [][NextStems]_vars

\* two threads calling ffmsindex with one cache directory, each for its
\* own source of the same directory
ffmsindex_pair(p) ==
    \E reuse \in {"True", "False"} :
        Begin(p, "ffindex", IF p = 1 THEN SrcA ELSE SrcB, reuse, "bin", "cache", "", "none", <<>>)

NextPair ==
    \/ \E p \in Concurrent : ffmsindex_pair(p)
    \/ \E p \in Concurrent : process(p)
    \/ \E p \in Concurrent : run_process(p)
    \/ \E p \in Concurrent : update_index_path_reference(p)
    \/ \E p \in Concurrent : remove_old(p)
    \/ \E p \in Concurrent : Finish(p)

SpecPair == InitConc /\ [][NextPair]_vars

\* the same calls, the calling thread going on whenever it can: once the
\* tool has exited p.join() returns, and the statements after it are run
SpecLive ==
    /\ Init /\ [][NextRange]_vars
    /\ \A p \in Procs : /\ WF_vars(run_process(p))
                        /\ WF_vars(update_index_path_reference(p))
                        /\ WF_vars(remove_old(p))

NextTamper ==
    \/ \E p \in Procs : d2vwitch_valid(p)
    \/ \E p \in Procs : ffmsindex_valid(p)
    \/ \E p \in Procs : process(p)
    \/ \E p \in Procs : run_process(p)
    \/ \E p \in Procs : update_index_path_reference(p)
    \/ \E p \in Procs : remove_old(p)
    \/ \E p \in Procs : Finish(p)
    \/ Tamper

SpecTamper == Init /\ [][NextTamper]_vars

\* the same, index files losing their write permission
SpecCoPerm == Init /\ [][NextCo \/ Protect]_vars

\* get_exec_path alone, on every combination of its arguments
ProbeExec ==
    /\ \E exec_dir \in ToolDirs, k \in Kinds, fallback_tool_dir \in ToolDirs,
          onPath \in OnPath :
         probe' = [set |-> TRUE, exec_dir |-> exec_dir, name |-> exec_name(k),
                   fallback_tool_dir |-> fallback_tool_dir, onPath |-> onPath,
                   out |-> get_exec_path(exec_dir, exec_name(k), fallback_tool_dir, onPath)]
    /\ UNCHANGED <<fs, nsdirs, names, pc, call, prep, result, log, last, gen, faulted,
                   nfaults, patched, loader, recent, heap, ui>>

SpecExec == Init /\ [][ProbeExec]_vars

\* correct_byte_for_range alone, applied once and once more to its own
\* result, on every text of PatchTexts with either range
ProbePatch ==
    /\ ~patched.set
    /\ \E text \in PatchTexts, input_range \in {"limited", "full"} :
         LET once == correct_byte_for_range(text, input_range)
         IN  patched' = [set |-> TRUE, text |-> text, input_range |-> input_range,
                         once |-> once,
                         twice |-> correct_byte_for_range(once.text, input_range)]
    /\ UNCHANGED <<fs, nsdirs, names, pc, call, prep, result, log, last, gen, faulted,
                   nfaults, probe, loader, recent, heap, ui>>

SpecPatch == Init /\ [][ProbePatch]_vars

\* the construction of Sources instances alone
SpecSettings == Init /\ [][Sources__init__]_vars
SpecUI == Init /\ [][NextUI]_vars

\* Sources.get_data alone
NextData == log_elsewhere \/ get_data \/ load_source \/ get_data_return \/ get_data_taken

SpecData == Init /\ [][NextData]_vars

(* ================================ claims =============================== *)
\* the call of slot p went past validation with a cache directory
Namespaced(p) == call[p] # NoCall /\ prep[p].using_reflist
\* the call of slot p has returned path
Returned(p, path) ==
    pc[p] = "done" /\ result[p] = [st |-> "returned", path |-> path, err |-> ""]
\* the call of slot p repeats, with re_use_indexing=True, a namespaced call
\* that returned an index whose file is still there
Repeats(p) ==
    /\ Namespaced(p)
    /\ call[p].reuse = "True"
    /\ call[p].pre.last # NoPath
    /\ call[p].pre.lastLive

\* C1, as stated: in namespaced mode, a call with re_use_indexing=True that
\* follows a successful call with re_use_indexing=True for the same source
\* and cache directory, the index file still on disk, returns the same path
\* and never starts the external tool.
C1_ReuseHit_AsStated ==
    \A p \in Procs :
        Repeats(p) => Returned(p, call[p].pre.last) /\ ~prep[p].ran

\* C1, amended: the same, for a directory in which no json_dump of a
\* reference list of that kind has failed before the second call.
C1_ReuseHit ==
    \A p \in Procs :
        Repeats(p) /\ ~call[p].pre.faulted
            => Returned(p, call[p].pre.last) /\ ~prep[p].ran

C1_Witness ==
    \E p \in Procs :
        /\ Repeats(p) /\ ~call[p].pre.faulted
        /\ Returned(p, call[p].pre.last)
        /\ exists(fs, result[p].path)

\* C2: get_exec_path with an empty exec_dir, the tool being found as a file
\* by shutil.which, returns the path found and raises nothing, whatever
\* fallback_tool_dir is.
C2_FoundOnPath ==
    (probe.set /\ probe.exec_dir = "" /\ probe.onPath = "file")
        => probe.out = Resolved(which(probe.name, probe.onPath))

\* the call of slot p, re_use_indexing=True, finds the source recorded in a
\* reference list with an index file that is no longer there
Stale(p) ==
    /\ Namespaced(p)
    /\ call[p].reuse = "True"
    /\ call[p].pre.rec # {}
    /\ ~call[p].pre.recLive

\* every reference list of the kind a scan of the directory of call p can
\* select records path for the source of the call, and none records an
\* index that was recorded and missing when the call began
RecordsOnly(p, path) ==
    LET M == Manifests(fs, prep[p].indexing_dir, call[p].kind)
        key == basename(call[p].source)
    IN  /\ M # {}
        /\ \A q \in M :
              /\ fs[q].t = "json"
              /\ key \in DOMAIN fs[q].map
              /\ fs[q].map[key] = path
              /\ \A k \in DOMAIN fs[q].map : fs[q].map[k] \notin call[p].pre.rec

\* C3, as stated: when the reference list maps the source to an index file
\* that has been deleted, the next call with re_use_indexing=True starts the
\* tool on a new index path, and when it has returned that path the
\* reference list found in the directory maps the source to it and the
\* stale path is referenced no more.
C3_StaleRegenerated_AsStated ==
    \A p \in Procs :
        Stale(p) =>
            /\ prep[p].ran
            /\ prep[p].index_path \notin call[p].pre.rec
            /\ (pc[p] = "done" /\ result[p].path # NoPath
                    => Returned(p, prep[p].index_path)
                       /\ RecordsOnly(p, prep[p].index_path))

\* C3, amended: the same, the state of the reference list being promised
\* only when no json_dump of a reference list of that kind has failed in
\* the directory.
C3_StaleRegenerated ==
    \A p \in Procs :
        Stale(p) =>
            /\ prep[p].ran
            /\ prep[p].index_path \notin call[p].pre.rec
            /\ (pc[p] = "done" /\ result[p].path # NoPath
                    => Returned(p, prep[p].index_path)
                       /\ (~faulted[call[p].kind] => RecordsOnly(p, prep[p].index_path)))

C3_Witness ==
    \E p \in Procs :
        /\ Stale(p)
        /\ ~faulted[call[p].kind]
        /\ Returned(p, prep[p].index_path)
        /\ result[p].path # NoPath
        /\ RecordsOnly(p, result[p].path)

\* C4: in namespaced mode a call with re_use_indexing=False for a source
\* that a reference list already records starts the external tool, on an
\* index file name different from every name recorded for the source.
C4_ForcedRegeneration ==
    \A p \in Procs :
        (Namespaced(p) /\ call[p].reuse = "False" /\ call[p].pre.rec # {})
            => /\ prep[p].ran
               /\ \A q \in call[p].pre.rec : q.name # prep[p].index_path.name

C4_Witness ==
    \E p \in Procs :
        /\ Namespaced(p) /\ call[p].reuse = "False"
        /\ call[p].pre.rec # {} /\ call[p].pre.recLive
        /\ prep[p].ran
        /\ Returned(p, prep[p].index_path)
        /\ result[p].path # NoPath

\* the mapping the persisted updates of a kind have built
Latest(k) == {key \in Keys : gen[k][key] # NoPath}

OldEntriesHeld(p) ==
    \E q \in CompleteManifests(fs, prep[p].indexing_dir, call[p].kind) :
        \A key \in DOMAIN prep[p].oldMap :
            /\ key \in DOMAIN fs[q].map
            /\ \/ fs[q].map[key] = prep[p].oldMap[key]
               \/ key = basename(call[p].source) /\ fs[q].map[key] = prep[p].index_path

\* C6: from the json_dump of update_index_path_reference on (between the
\* dump and the removal of the old list, and after it, whether the dump
\* succeeded or failed) the directory holds a complete reference list with
\* the entries recorded before; the old list is gone only when the new one
\* has been written.
C6_EntriesSurvive ==
    \A p \in Procs :
        (prep[p].dumped # "" /\ prep[p].oldMap # EmptyMap)
            => /\ OldEntriesHeld(p)
               /\ (~exists(fs, join(prep[p].indexing_dir, prep[p].reflist_name))
                       => /\ exists(fs, join(prep[p].indexing_dir, prep[p].new_name))
                          /\ fs[join(prep[p].indexing_dir, prep[p].new_name)].t = "json")

C6_Witness ==
    \E p \in Procs :
        /\ pc[p] = "remove"
        /\ prep[p].dumped = "ok"
        /\ \E key \in DOMAIN prep[p].oldMap : key \in Keys
        /\ exists(fs, join(prep[p].indexing_dir, prep[p].reflist_name))
        /\ exists(fs, join(prep[p].indexing_dir, prep[p].new_name))
        /\ OldEntriesHeld(p)

\* C7: when json_dump fails in update_index_path_reference, the old
\* reference list is still there with its content, it is the file the next
\* scan of the directory for <kind>list selects, the failure is logged, and
\* the call returns the new index path.
C7_FailedPersist ==
    \A p \in Procs :
        (/\ pc[p] = "done"
         /\ prep[p].dumped \in {"nofile", "partial"}
         /\ prep[p].oldMap # EmptyMap)
        => LET old == join(prep[p].indexing_dir, prep[p].reflist_name)
           IN  /\ exists(fs, old)
               /\ fs[old] = [t |-> "json", map |-> prep[p].oldMap]
               /\ Manifests(fs, prep[p].indexing_dir, call[p].kind) = {old}
               /\ "err_store_reference" \in log[p]
               /\ Returned(p, prep[p].index_path)

\* C8: a call that has started the external tool returns the index path iff
\* the tool exited with status 0 and the index file exists; otherwise it
\* returns '' and has logged the indexing error; it never raises.
C8_ToolOutcome ==
    \A p \in Procs :
        (pc[p] = "done" /\ prep[p].ran)
            => IF prep[p].exit0 /\ prep[p].fileThere
               THEN Returned(p, prep[p].index_path) /\ prep[p].index_path # NoPath
               ELSE Returned(p, NoPath) /\ "err_indexing" \in log[p]

C8_Witness ==
    \E p \in Procs :
        /\ pc[p] = "done" /\ prep[p].ran
        /\ prep[p].exit0 /\ ~prep[p].fileThere
        /\ Returned(p, NoPath)
        /\ "err_indexing" \in log[p]

\* C9: a step in which a call raises is taken from the start of the call
\* (no external tool was started) and leaves every file, every directory and
\* the number of names drawn as they were.
C9_RaiseChangesNothing ==
    [][\A p \in Procs :
          (result'[p].st = "raised" /\ result[p].st # "raised")
              => /\ pc[p] = "idle"
                 /\ ~prep'[p].ran
                 /\ fs' = fs /\ nsdirs' = nsdirs /\ names' = names]_vars

C9_Witness ==
    \E p \in Procs :
        /\ pc[p] = "done"
        /\ result[p] = [st |-> "raised", path |-> NoPath,
                        err |-> "ExecutableNotInPATHError"]
        /\ nsdirs = {}
        /\ fs = <<>>

\* C10: get_exec_path with an empty exec_dir and nothing found by
\* shutil.which: when fallback_tool_dir is a directory that holds the tool
\* under its name or its name + '.exe', the result is the path of that file
\* inside fallback_tool_dir; when fallback_tool_dir is empty or no
\* directory, ExecutableNotInPATHError is raised with the name of the tool.
C10_Fallback ==
    (probe.set /\ probe.exec_dir = "" /\ probe.onPath = "none") =>
        LET fb == probe.fallback_tool_dir
            bare == [dir |-> fb, name |-> probe.name, suffix |-> ""]
            exe == [dir |-> fb, name |-> probe.name, suffix |-> ".exe"]
        IN  /\ (isdir(fb) /\ (isfile_tool(bare, "none") \/ isfile_tool(exe, "none")))
                    => /\ probe.out.ok
                       /\ probe.out.path \in {bare, exe}
                       /\ isfile_tool(probe.out.path, "none")
            /\ (fb = "" \/ ~isdir(fb))
                    => probe.out = Raised("ExecutableNotInPATHError", probe.name)

C10_Witness ==
    /\ probe.set /\ probe.exec_dir = "" /\ probe.onPath = "none"
    /\ probe.fallback_tool_dir = "binexe"
    /\ probe.out = Resolved([dir |-> "binexe", name |-> probe.name, suffix |-> ".exe"])

\* the directory get_exec_path looks into for the binary: exec_dir when it
\* is given, else fallback_tool_dir when shutil.which found no file ("" when
\* there is none)
ResolvedDir ==
    IF probe.exec_dir # "" THEN probe.exec_dir
    ELSE IF probe.onPath # "file" THEN probe.fallback_tool_dir
    ELSE ""

\* C11: when the directory looked into is a directory that holds neither
\* the tool name nor the tool name + '.exe', get_exec_path raises the
\* ValueError of line 924, not ExecutableNotInPATHError; and
\* ExecutableNotInPATHError is raised only with an empty exec_dir, no file
\* found by shutil.which and a fallback_tool_dir that is empty or no
\* directory.
C11_MissingBinary ==
    probe.set =>
        /\ (/\ ResolvedDir # "" /\ isdir(ResolvedDir)
            /\ ~isfile_tool([dir |-> ResolvedDir, name |-> probe.name, suffix |-> ""], "none")
            /\ ~isfile_tool([dir |-> ResolvedDir, name |-> probe.name, suffix |-> ".exe"], "none"))
              => probe.out = Raised("ValueError_exec_missing", "")
        /\ probe.out.err = "ExecutableNotInPATHError"
              => /\ probe.exec_dir = ""
                 /\ probe.onPath # "file"
                 /\ (probe.fallback_tool_dir = "" \/ ~isdir(probe.fallback_tool_dir))

C11_Witness ==
    /\ probe.set /\ probe.exec_dir = "" /\ probe.onPath = "none"
    /\ probe.fallback_tool_dir = "emptydir"
    /\ probe.out = Raised("ValueError_exec_missing", "")

\* C12: a call whose source is empty, missing or no regular file raises, and
\* so does a call whose indexing_dir is non-empty and no directory; an empty
\* indexing_dir is never the reason of a raise, and a call with it that
\* does not raise keeps its index in the directory of the source, without
\* reference list.
C12_InvalidPaths ==
    \A p \in Procs :
        pc[p] # "idle" =>
            /\ call[p].source \in {NoSource, SrcMissing, SrcIsDir}
                  => /\ pc[p] = "done"
                     /\ result[p].st = "raised"
                     /\ result[p].err \in {"ValueError_no_source", "ValueError_not_a_file"}
            /\ (call[p].indexing_dir # "" /\ ~isdir(call[p].indexing_dir))
                  => pc[p] = "done" /\ result[p].st = "raised"
            /\ call[p].indexing_dir = ""
                  => /\ result[p].err # "ValueError_indexing_dir"
                     /\ result[p].st # "raised"
                           => /\ ~prep[p].using_reflist
                              /\ prep[p].indexing_dir = source_dir(call[p].source)

C12_Witness ==
    \E p \in Procs :
        /\ pc[p] = "done"
        /\ call[p].source \in Sources
        /\ call[p].indexing_dir = "nocache"
        /\ result[p] = [st |-> "raised", path |-> NoPath, err |-> "ValueError_indexing_dir"]

\* C13: every call whose re_use_indexing is not the boolean True or False
\* raises and never gets to decide on indexing.
C13_NonBooleanRejected ==
    \A p \in Procs :
        (pc[p] # "idle" /\ call[p].reuse \notin {"True", "False"})
            => /\ pc[p] = "done"
               /\ result[p].st = "raised"
               /\ prep[p] = NoPrep

\* the index path beside the source: <directory of the source>/<stem>.<kind>
CoPath(p) ==
    join(source_dir(call[p].source),
         [head |-> call[p].source.stem, rnd |-> 0, ext |-> call[p].kind])
\* the call of slot p went past validation without indexing_dir
Colocated(p) ==
    pc[p] # "idle" /\ call[p].indexing_dir = "" /\ result[p].st # "raised"

\* C14: without indexing_dir the index path of a call is
\* <directory of the source>/<stem of the source>.<kind>, whatever
\* re_use_indexing is and whatever calls came before, and a call that
\* returns a path returns that one.
C14_ColocatedPath ==
    \A p \in Procs :
        Colocated(p) =>
            /\ prep[p].index_path = CoPath(p)
            /\ (pc[p] = "done" /\ result[p].path # NoPath) => Returned(p, CoPath(p))

C14_Witness ==
    \E p \in Procs :
        /\ Colocated(p)
        /\ call[p].reuse = "False"
        /\ call[p].pre.there
        /\ prep[p].ran
        /\ Returned(p, CoPath(p))

\* C15: without indexing_dir a call with re_use_indexing=False always runs
\* the tool, and a call with re_use_indexing=True runs it iff no file was at
\* the index path when the call began, returning that path at once when
\* there was one.
C15_ColocatedDecision ==
    \A p \in Procs :
        Colocated(p) =>
            /\ call[p].reuse = "False" => prep[p].ran
            /\ call[p].reuse = "True"
                  => /\ prep[p].ran <=> ~call[p].pre.there
                     /\ call[p].pre.there => Returned(p, CoPath(p))

C15_Witness ==
    \E p \in Procs :
        /\ Colocated(p)
        /\ call[p].reuse = "True"
        /\ call[p].pre.there
        /\ ~prep[p].ran
        /\ Returned(p, CoPath(p))

\* some line of text, trimmed, starts with the marker
HasMarkerLine(text) ==
    \E i \in 1..Len(text) :
        /\ (i = 1 \/ text[i - 1] = "\n")
        /\ startswith(strip(SubSeq(text, i, LineEnd(text, i))), MARKER)

\* C16: correct_byte_for_range applied a second time with the same range
\* leaves the text as the first application left it.
C16_PatchIdempotent ==
    patched.set => patched.twice.text = patched.once.text

\* C17: on a text without a line whose trimmed content starts with the
\* marker, correct_byte_for_range leaves the text as it is.
C17_NoMarkerUnchanged ==
    (patched.set /\ ~HasMarkerLine(patched.text)) => patched.once.text = patched.text

\* the d2v call of slot p has returned an index path
ReturnedD2V(p) ==
    /\ pc[p] = "done"
    /\ call[p].kind = "d2v"
    /\ result[p].st = "returned"
    /\ result[p].path # NoPath

C19_CorrectionNeverRaises ==
    \A p \in Procs :
        (/\ pc[p] = "done"
         /\ call[p].kind = "d2v"
         /\ prep[p].index_path # NoPath
         /\ ~prep[p].ran)
        => Returned(p, prep[p].index_path)

\* C20: in namespaced mode, no json_dump of a reference list of the kind
\* having failed, at the return of a non-empty path every reference list a
\* scan of the directory can select maps the source to the path returned;
\* while the tool runs, and when its run has failed, no reference list
\* holds the new path.
C20_ManifestAtReturn ==
    \A p \in Procs :
        Namespaced(p) =>
            LET M == Manifests(fs, prep[p].indexing_dir, call[p].kind)
                key == basename(call[p].source)
            IN  /\ (pc[p] = "done" /\ result[p].path # NoPath /\ ~faulted[call[p].kind])
                      => /\ Returned(p, prep[p].index_path)
                         /\ M # {}
                         /\ \A q \in M : /\ fs[q].t = "json"
                                         /\ key \in DOMAIN fs[q].map
                                         /\ fs[q].map[key] = result[p].path
                /\ (prep[p].ran /\ (pc[p] = "running" \/ Returned(p, NoPath)))
                      => prep[p].index_path
                             \notin Recorded(fs, prep[p].indexing_dir, call[p].kind, key)

C20_Witness ==
    \E p \in Procs :
        /\ Namespaced(p)
        /\ ~faulted[call[p].kind]
        /\ prep[p].ran
        /\ call[p].pre.rec # {}
        /\ Returned(p, prep[p].index_path)
        /\ result[p].path # NoPath
        /\ Recorded(fs, prep[p].indexing_dir, call[p].kind, basename(call[p].source))
               = {result[p].path}

\* C23: a call with valid arguments and a cache directory never raises,
\* whatever the reference list file holds: when the list cannot be loaded
\* as a mapping the tool is run and the call returns.
C23_LoadNeverFails ==
    \A p \in Procs :
        (pc[p] = "done" /\ Namespaced(p)) => result[p].st = "returned"

\* the call of slot p, re_use_indexing=True with a cache directory, found no
\* file <kind>list* in its directory
FirstCall(p) ==
    /\ Namespaced(p)
    /\ call[p].reuse = "True"
    /\ \A q \in DOMAIN call[p].pre.lists : q.name.head # list_prefix(call[p].kind)
\* <cache>/indexing/<basename of the directory of the source>
CacheSubdir(p) ==
    [root |-> call[p].indexing_dir, sub |-> "indexing",
     leaf |-> dir_basename(call[p].source.dir)]
\* at the return of call p the directory holds one reference list, named
\* <kind>list<random>, whose entries are exactly those of map
OneListHolding(p, map) ==
    LET M == {q \in DOMAIN fs : q.dir = CacheSubdir(p)
                                /\ q.name.head = list_prefix(call[p].kind)}
    IN  /\ Cardinality(M) = 1
        /\ \A q \in M : /\ q.name.rnd > 0 /\ q.name.ext = ""
                        /\ fs[q].t = "json"
                        /\ fs[q].map = map

ListsNow(p) ==
    [q \in UNION {Manifests(fs, prep[p].indexing_dir, k) : k \in Kinds} |-> fs[q]]

\* C24: a call with re_use_indexing=True and a cache directory that finds
\* the source recorded with an index file that exists (no json_dump of the
\* kind having failed before) does not index (isIndexing is False, the tool
\* is not started), returns the recorded path, and the reference list
\* files of the directory, names and contents, are at its return what they
\* were at its start.
C24_HitWritesNoManifest ==
    \A p \in Procs :
        (/\ Namespaced(p) /\ call[p].reuse = "True"
         /\ call[p].pre.recLive /\ ~call[p].pre.faulted)
        => /\ ~prep[p].isIndexing /\ ~prep[p].ran
           /\ pc[p] = "done" /\ result[p].st = "returned"
           /\ result[p].path \in call[p].pre.rec
           /\ ListsNow(p) = call[p].pre.lists

C24_Witness ==
    \E p \in Procs :
        /\ Namespaced(p) /\ call[p].reuse = "True"
        /\ call[p].pre.recLive /\ ~call[p].pre.faulted
        /\ call[p].kind = "d2v" /\ prep[p].corrected
        /\ Returned(p, prep[p].index_path)
        /\ ListsNow(p) = call[p].pre.lists
        /\ Cardinality(DOMAIN ListsNow(p)) = 2

\* the call of slot p, with a cache directory, has run the tool and the
\* run failed: exit status not 0, or no index file at the test of line 587
ToolFailed(p) ==
    /\ Namespaced(p)
    /\ pc[p] = "done" /\ prep[p].ran
    /\ ~(prep[p].exit0 /\ prep[p].fileThere)
\* the reference lists are what they were at the start of call p: every
\* list file of then is there with its content, the source is recorded
\* with the same index files, and a list file made since (by the scan that
\* found none) holds the placeholder entry only
ListsKept(p) ==
    /\ \A q \in DOMAIN call[p].pre.lists :
          exists(fs, q) /\ fs[q] = call[p].pre.lists[q]
    /\ Recorded(fs, prep[p].indexing_dir, call[p].kind, basename(call[p].source))
          = call[p].pre.rec
    /\ \A q \in DOMAIN ListsNow(p) \ DOMAIN call[p].pre.lists :
          fs[q].t = "json" => fs[q].map = PlaceholderKey :> PlaceholderPath
\* a call with re_use_indexing=True for the source of call p, made in the
\* present state, would start the tool
WouldIndex(p) ==
    \A g \in get_index_path_using_reflist(fs, names, call[p].source, call[p].kind,
                                          prep[p].indexing_dir, "True") : g.isIndexing

\* C30, as stated: after a failed tool run the call returns '', the
\* reference lists are as they were, and a following call with
\* re_use_indexing=True for the source starts the tool again.
C30_FailureFrame_AsStated ==
    \A p \in Procs :
        ToolFailed(p) => Returned(p, NoPath) /\ ListsKept(p) /\ WouldIndex(p)

\* C30, amended: the same, the following call starting the tool again
\* unless a reference list still records for the source an index file that
\* exists; it does start it when the failed call was itself made with
\* re_use_indexing=True (no json_dump of the kind having failed).
C30_FailureFrame ==
    \A p \in Procs :
        ToolFailed(p) =>
            /\ Returned(p, NoPath)
            /\ ListsKept(p)
            /\ (\A q \in call[p].pre.rec : ~exists(fs, q)) => WouldIndex(p)
            /\ (call[p].reuse = "True" /\ ~faulted[call[p].kind]) => WouldIndex(p)

C30_Witness ==
    \E p \in Procs :
        /\ ToolFailed(p)
        /\ call[p].reuse = "True"
        /\ prep[p].exit0
        /\ call[p].pre.rec # {}
        /\ Returned(p, NoPath)
        /\ ListsKept(p) /\ WouldIndex(p)

\* position i of text starts a line that reads YUVRGB_Scale=<flag>
MarkerLineAt(text, i) ==
    /\ i \in 1..Len(text)
    /\ (i = 1 \/ text[i - 1] = "\n")
    /\ i + 13 <= Len(text)
    /\ SubSeq(text, i, i + 12) = MARKER \o <<"=">>
    /\ text[i + 13] \in {"0", "1"}
    /\ (i + 13 = Len(text) \/ text[i + 14] = "\n")
\* text has a marker line, and every line of it that starts with the
\* marker, trimmed, is one
WellMarked(text) ==
    /\ \E i \in 1..Len(text) : MarkerLineAt(text, i)
    /\ \A i \in 1..Len(text) :
          (/\ (i = 1 \/ text[i - 1] = "\n")
           /\ startswith(strip(SubSeq(text, i, LineEnd(text, i))), MARKER))
              => MarkerLineAt(text, i)
FirstMarkerLine(text) ==
    CHOOSE i \in 1..Len(text) :
        MarkerLineAt(text, i) /\ \A j \in 1..(i - 1) : ~MarkerLineAt(text, j)

\* C27: on a text with a line YUVRGB_Scale=<flag>, wherever it is,
\* correct_byte_for_range leaves the flag of the (first) marker line equal
\* to the flag of the range asked for ('0' for full, else '1'), the length
\* of the text as it was, and every other character as it was.
C27_MarkerPatched ==
    (patched.set /\ WellMarked(patched.text)) =>
        LET i == FirstMarkerLine(patched.text)
            out == patched.once.text
        IN  /\ Len(out) = Len(patched.text)
            /\ out[i + 13] = (IF patched.input_range = "full" THEN "0" ELSE "1")
            /\ \A j \in 1..Len(out) : j # i + 13 => out[j] = patched.text[j]

\* the range the option string of call p asks for
AsksFull(p) == call[p].opts \in {OptFull, OptFullQuoted}

\* C28: when a d2v call returns an index it reused, the flag of the marker
\* line of that file is '0' if d2vwitch_options asks for range full
\* (--input-range full, or --input-range "full" in the quoted form of the
\* default option string), and '1' if it asks for limited or names no
\* range.
C28_RangeOfOptions ==
    \A p \in Procs :
        (ReturnedD2V(p) /\ ~prep[p].ran /\ exists(fs, result[p].path)) =>
            LET text == fs[result[p].path].text
            IN  text[FirstMarkerLine(text) + 13] = (IF AsksFull(p) THEN "0" ELSE "1")

\* C29: with a cache directory, the index path a call allocates and the
\* reference lists it uses or writes lie directly inside
\* <cache>/indexing/<basename of the directory of the source>; the index
\* file is named <random>.<kind>, a reference list <kind>list<random> (when
\* its creation failed the call uses none); hence no index file of the
\* directory is a file the scan for <kind>list selects.
C29_InsideSubdir ==
    \A p \in Procs :
        Namespaced(p) =>
            /\ prep[p].indexing_dir = CacheSubdir(p)
            /\ prep[p].isIndexing
                  => /\ prep[p].index_path.dir = CacheSubdir(p)
                     /\ prep[p].index_path.name =
                            [head |-> "", rnd |-> prep[p].index_path.name.rnd,
                             ext |-> call[p].kind]
                     /\ prep[p].index_path.name.rnd > 0
            /\ \A n \in {prep[p].reflist_name, prep[p].new_name} \ {NoName} :
                  n.head = call[p].kind \o "list" /\ n.rnd > 0 /\ n.ext = ""
            /\ \A q \in DOMAIN fs :
                  /\ q.name \in {prep[p].reflist_name, prep[p].new_name,
                                  prep[p].index_path.name} => q.dir = CacheSubdir(p)
                  /\ fs[q].t = "index"
                        => \A k \in Kinds : q \notin Manifests(fs, q.dir, k)

C29_Witness ==
    \E p \in Procs :
        /\ Namespaced(p) /\ prep[p].isIndexing
        /\ Returned(p, prep[p].index_path)
        /\ exists(fs, prep[p].index_path)
        /\ exists(fs, join(CacheSubdir(p), prep[p].new_name))
        /\ prep[p].index_path.dir = CacheSubdir(p)

\* while the tool started by call p runs, the call has not ended and has
\* not written a reference list
Blocked(p) ==
    prep[p].proc = "running" =>
        /\ pc[p] = "running"
        /\ result[p] = NoResult
        /\ prep[p].dumped = "" /\ prep[p].new_name = NoName
        /\ prep[p].index_path \notin Recorded(fs, prep[p].indexing_dir, call[p].kind,
                                               basename(call[p].source))

\* C26: a call never returns, raises or writes a reference list while the
\* tool it has started is running; and once the tool has exited the call
\* comes to its end.
C26_BlocksUntilExit ==
    /\ [](\A p \in Procs : Blocked(p))
    /\ \A p \in Procs : (prep[p].proc = "exited") ~> (pc[p] = "done")

C26_Witness ==
    \E p \in Procs :
        /\ prep[p].proc = "exited" /\ prep[p].exit0
        /\ prep[p].dumped = "ok"
        /\ Returned(p, prep[p].index_path)

\* the calls of slots p and q, for the same source and kind with a cache
\* directory, have both run the tool and returned their index paths
BothIndexed(p, q) ==
    /\ p # q
    /\ Namespaced(p) /\ Namespaced(q)
    /\ call[p].kind = call[q].kind /\ call[p].source = call[q].source
    /\ prep[p].ran /\ prep[q].ran
    /\ Returned(p, prep[p].index_path) /\ Returned(q, prep[q].index_path)

\* C21: when two calls for the same source have both run the tool and
\* returned (no json_dump having failed), their index paths differ, and
\* every reference list a scan of the directory can select maps the source
\* to the index of the call whose update was persisted last; the index of
\* the other call is in no reference list.
C21_LastWriterWins ==
    \A p, q \in Concurrent :
        (BothIndexed(p, q) /\ ~faulted[call[p].kind]) =>
            LET key == basename(call[p].source)
                M == Manifests(fs, prep[p].indexing_dir, call[p].kind)
            IN  /\ prep[p].index_path # prep[q].index_path
                /\ gen[call[p].kind][key] \in {prep[p].index_path, prep[q].index_path}
                /\ M # {}
                /\ \A m \in M : /\ fs[m].t = "json"
                                /\ key \in DOMAIN fs[m].map
                                /\ fs[m].map[key] = gen[call[p].kind][key]

\* C25: get_data on a list of n paths of files returns n records in the
\* order of the list, one per source; the record of a source whose loading
\* raised (or gave no clip) has load_isError = True, the others hold their
\* clip whatever happened to the sources before them, and the two logs of a
\* record hold the messages logged while its own source was loaded, and no
\* others.
C25_OneRecordPerSource ==
    (loader.at = "returned" /\ loader.valid) =>
        /\ Len(loader.dataclasses) = Len(loader.sources)
        /\ \A k \in 1..Len(loader.sources) :
              LET data == loader.dataclasses[k]
              IN  /\ data.source_path = loader.sources[k]
                  /\ data.load_isError <=> loader.outcomes[k] # "clip"
                  /\ loader.outcomes[k] = "clip" => data.clip = "clip"
                  /\ data.load_log # <<>>
                  /\ data.load_isError => data.load_log_error # <<>>
                  /\ \A m \in 1..Len(data.load_log) : data.load_log[m].src = k
                  /\ \A m \in 1..Len(data.load_log_error) : data.load_log_error[m].src = k

C25_Witness ==
    /\ loader.at = "returned" /\ loader.valid
    /\ Len(loader.sources) = 3
    /\ loader.outcomes = <<"clip", "ExecutableNotInPATHError", "clip">>
    /\ loader.dataclasses[2].load_isError
    /\ ~loader.dataclasses[3].load_isError

\* the call of slot p, re_use_indexing=True with a cache directory, is made
\* for a source whose most recently returned index is still on disk
FollowsLive(p) ==
    /\ Namespaced(p)
    /\ call[p].reuse = "True"
    /\ call[p].pre.recent.path # NoPath
    /\ call[p].pre.recentLive

AfterForced(p) ==
    /\ Namespaced(p)
    /\ call[p].reuse = "True"
    /\ call[p].pre.recent.path # NoPath
    /\ call[p].pre.recent.reuse = "False"

ReuseHit(p) ==
    /\ call[p] # NoCall
    /\ pc[p] = "done" /\ result[p].st = "returned" /\ result[p].path # NoPath
    /\ ~prep[p].ran

\* C33: with a cache directory, the index a call returns without starting
\* the tool was generated from the source file of the call, for every pair
\* of source files, those with equal basenames in different directories of
\* the same name included.
C33_HitOfSameSource ==
    \A p \in Procs :
        ReuseHit(p) /\ prep[p].using_reflist
            => fs[result[p].path].src = call[p].source

\* C34: without a cache directory, the index a call returns without
\* starting the tool was generated from the source file of the call, for
\* every pair of source files of one directory, those with the same stem
\* and different extensions included.
C34_ColocatedOfSameSource ==
    \A p \in Procs :
        ReuseHit(p) /\ ~prep[p].using_reflist
            => fs[result[p].path].src = call[p].source

\* C35: when a call that started the tool returns a path that is not the
\* empty string, the file at that path was written by that run of the
\* tool, in both modes, also when a file of an earlier run is at the path.
C35_WrittenByThisRun ==
    \A p \in Procs :
        (/\ call[p] # NoCall /\ prep[p].ran
         /\ pc[p] = "done" /\ result[p].st = "returned" /\ result[p].path # NoPath)
            => prep[p].wrote

PairIndexed(p, q) ==
    /\ p # q
    /\ Namespaced(p) /\ Namespaced(q)
    /\ call[p].kind = call[q].kind /\ call[p].source # call[q].source
    /\ prep[p].indexing_dir = prep[q].indexing_dir
    /\ prep[p].ran /\ prep[q].ran
    /\ Returned(p, prep[p].index_path) /\ Returned(q, prep[q].index_path)

\* C37: when two calls for two different sources of one directory have
\* both run the tool and returned (no json_dump having failed), exactly one
\* reference list of the kind is in the directory and it maps each of the
\* two sources to the index its call returned, so that a call with
\* re_use_indexing=True for either source finds its index.
C37_BothEntriesKept ==
    \A p, q \in Concurrent :
        (PairIndexed(p, q) /\ ~faulted[call[p].kind]) =>
            LET M == Manifests(fs, prep[p].indexing_dir, call[p].kind)
            IN  /\ Cardinality(M) = 1
                /\ \A m \in M :
                      /\ fs[m].t = "json"
                      /\ \A r \in {p, q} :
                            /\ basename(call[r].source) \in DOMAIN fs[m].map
                            /\ fs[m].map[basename(call[r].source)] = prep[r].index_path

\* the reference lists of kind index_ext in directory dir, by their names
ListsOfKind(f, dir, index_ext) ==
    {q \in DOMAIN f : q.dir = dir /\ q.name.head = list_prefix(index_ext)}

\* C39: in a directory under the cache directory that both kinds use, a
\* call of one kind selects and writes only reference lists with its own
\* <kind>list prefix, and from its start to its return the reference lists
\* of the other kind are the same files with the same content.
C39_KindsApart ==
    \A p \in Procs :
        Namespaced(p) =>
            \A other \in Kinds \ {call[p].kind} :
                /\ prep[p].reflist_name # NoName
                       => prep[p].reflist_name.head = list_prefix(call[p].kind)
                /\ prep[p].new_name # NoName
                       => prep[p].new_name.head = list_prefix(call[p].kind)
                /\ ListsOfKind(fs, prep[p].indexing_dir, other)
                       = {q \in DOMAIN call[p].pre.lists : q.name.head = list_prefix(other)}
                /\ \A q \in ListsOfKind(fs, prep[p].indexing_dir, other) :
                       fs[q] = call[p].pre.lists[q]

\* a d2v call has replaced the d2v list in a directory that held an
\* ffindex list when the call began
C39_Witness ==
    \E p \in Procs :
        /\ Namespaced(p) /\ call[p].kind = "d2v"
        /\ Returned(p, prep[p].index_path)
        /\ prep[p].dumped = "ok"
        /\ ~exists(fs, join(prep[p].indexing_dir, prep[p].reflist_name))
        /\ \E q \in ListsOfKind(fs, prep[p].indexing_dir, "ffindex") :
              /\ fs[q].t = "json"
              /\ q \in DOMAIN call[p].pre.lists
              /\ fs[q] = call[p].pre.lists[q]

\* the settings of instance i with the plugin map in the place of its id
SettingsOf(i) == Deref(heap.obj, heap.obj[heap.inst[i].settings])

\* C38: whatever keywords Sources instances have been constructed with,
\* DEFAULT_SETTINGS and DEFAULT_PLUGIN_MAP are what they were when the
\* module was imported, and an instance constructed without keywords has
\* the default settings.
C38_OverridesStayLocal ==
    /\ heap.obj[IdSettings] = DEFAULT_SETTINGS
    /\ heap.obj[IdPluginMap] = DEFAULT_PLUGIN_MAP
    /\ \A i \in 1..Len(heap.inst) :
          Passed(heap.inst[i].kwargs) = {}
              => SettingsOf(i) = Deref(NoHeap.obj, DEFAULT_SETTINGS)
\* C40: whenever none of the decorated handlers (add_plugin, delete_plugin,
\* reset, close) is executing, messagebox_open is False, so a later close
\* request is processed and not dropped by the decorator
C40_BoxFlagReleased == ui.executing = "none" => ~ui.messagebox_open

====
